---- MODULE Spec2Model ----
(***************************************************************************)
(* A model of pg_check: the page header check (common.c), the heap tuple   *)
(* checks (heap.c), the b-tree page check (index.c) and the relation       *)
(* driver check_table (pg_check.c).                                        *)
(*                                                                         *)
(* Pages keep the real geometry (BLCKSZ = 8192, a 24 byte page header, 4   *)
(* byte line pointers); the inputs are drawn from small sets of values     *)
(* placed around the boundaries the checks compare against.                *)
(* Multi-byte fields are read little-endian, and the build is taken to be  *)
(* PostgreSQL >= 9.3 (pd_checksum instead of pd_tli).                      *)
(***************************************************************************)
EXTENDS Integers, Sequences, FiniteSets, TLC

VARIABLES
    pc,         \* position of the operation under way
    header,     \* PageHeader handed to check_page_header
    hres,       \* what check_page_header returned
    page,       \* heap page handed to check_heap_tuples
    desc,       \* rel->rd_att: the tuple descriptor
    item,       \* i of the loop in check_heap_tuples
    tres,       \* per line pointer: what check_heap_tuple returned
    rel,        \* blocks of the relation read by check_table
    blkno,      \* blkno of the loop in check_table
    nerrs,      \* nerrs of the operation under way
    call,       \* arguments of check_table
    blockTo,    \* blockTo of check_table, once the range is settled
    blockLog,   \* per block visited: what check_table did with it
    ipage,      \* index page handed to btree_check_page
    ires,       \* what btree_check_page returned
    indexes,    \* the indexes of the relation, as RelationGetIndexList gives them
    idxno,      \* position of check_table in the list of indexes
    indexLog,   \* per index visited: what check_table did with it
    bitmap_heap,\* bitmap_heap of check_table
    bitmap_idx, \* bitmap_idx of check_table
    locks,      \* relation locks taken and released, in order
    pgcheck_debug, \* the pg_check.debug setting
    printed,    \* the bitmaps handed to bitmap_print, in order
    lookup,     \* lookup_check_method: its arguments, its i and its result
    bitop       \* the last call of bitmap_set_item or bitmap_get_item

vars == <<pc, header, hres, page, desc, item, tres, rel, blkno, nerrs, call,
          blockTo, blockLog, ipage, ires, indexes, idxno, indexLog, bitmap_heap,
          bitmap_idx, locks, pgcheck_debug, printed, lookup,
          bitop>>

headerVars == <<header, hres>>
tupleVars == <<page, desc, item, tres>>
tableVars == <<rel, blkno, call, blockTo, blockLog>>
indexVars == <<ipage, ires, indexes, idxno, indexLog>>
bitmapVars == <<bitmap_heap, bitmap_idx, bitop>>
lockVars == <<locks>>
debugVars == <<pgcheck_debug, printed>>
lookupVars == <<lookup>>

(***************************************************************************)
(* Program constants                                                       *)
(***************************************************************************)
BLCKSZ == 8192
SizeOfPageHeaderData == 24
PG_PAGE_LAYOUT_VERSION == 4
PD_VALID_FLAG_BITS == 7
SizeOfItemId == 4

LP_UNUSED == 0
LP_NORMAL == 1
LP_REDIRECT == 2
LP_DEAD == 3

(***************************************************************************)
(* common.c: check_page_header                                             *)
(***************************************************************************)

\* PageGetPageSize: pd_pagesize_version & 0xFF00
PageGetPageSize(h) == (h.pd_pagesize_version \div 256) * 256

\* PageGetPageLayoutVersion: pd_pagesize_version & 0x00FF
PageGetPageLayoutVersion(h) == h.pd_pagesize_version % 256

\* PageIsNew: pd_upper == 0
PageIsNew(h) == h.pd_upper = 0

\* the range test applied to pd_lower, pd_upper and pd_special
PointerOutOfRange_open(p) == (p <= SizeOfPageHeaderData) \/ (p > BLCKSZ)

PointerOutOfRange(p) == (p < SizeOfPageHeaderData) \/ (p > BLCKSZ)

\* (pd_flags & PD_VALID_FLAG_BITS) != pd_flags, PD_VALID_FLAG_BITS = 0x0007
InvalidFlags(h) == (h.pd_flags % (PD_VALID_FLAG_BITS + 1)) # h.pd_flags

AddIf(errs, cond, tag) == IF cond THEN Append(errs, tag) ELSE errs

\* the checks made on a page of the current layout that is not new
HeaderPointerChecks(h, errs) ==
    LET e1 == AddIf(errs, PointerOutOfRange(h.pd_lower), "lower")
        e2 == AddIf(e1, PointerOutOfRange(h.pd_upper), "upper")
        e3 == AddIf(e2, PointerOutOfRange(h.pd_special), "special")
        e4 == AddIf(e3, h.pd_lower > h.pd_upper, "lower>upper")
        e5 == AddIf(e4, h.pd_upper > h.pd_special, "upper>special")
        e6 == AddIf(e5, InvalidFlags(h), "flags")
    IN  [errs |-> e6, stop |-> "none"]

\* 'return nerrs' of a new page
NewPageReturn(h, errs) == [errs |-> errs, stop |-> "new"]

\* 'return ++nerrs' of an obsolete layout version
ObsoleteReturn_silent(h, errs) == [errs |-> errs, stop |-> "obsolete"]

ObsoleteReturn(h, errs) == [errs |-> Append(errs, "obsolete"), stop |-> "obsolete"]

\* The result is the sequence of violations counted, in the order they are
\* counted (the returned nerrs is its length), and the place of the return.
check_page_header(h) ==
    LET v  == PageGetPageLayoutVersion(h)
        e1 == AddIf(<<>>, PageGetPageSize(h) # BLCKSZ, "size")
        e2 == AddIf(e1, v < 0 \/ v > 4, "version")
    IN  IF ~(v < 0 \/ v > 4) /\ v # PG_PAGE_LAYOUT_VERSION
        THEN ObsoleteReturn(h, e2)
        ELSE IF PageIsNew(h)
             THEN NewPageReturn(h, e2)
             ELSE HeaderPointerChecks(h, e2)

HeaderNerrs(r) == Len(r.errs)

(***************************************************************************)
(* Inputs of the header check                                              *)
(***************************************************************************)
PointerValues == {0, 20, 24, 100, 8192, 8193}
PageSizeValues == {0, 4096, 8192}
VersionValues == {0, 3, 4, 5}
FlagValues == {0, 4, 8}

Headers ==
    [pd_lower : PointerValues, pd_upper : PointerValues, pd_special : PointerValues,
     pd_pagesize_version : {s + v : s \in PageSizeValues, v \in VersionValues},
     pd_flags : FlagValues]

NoHeader == [pd_lower |-> 0, pd_upper |-> 0, pd_special |-> 0,
             pd_pagesize_version |-> 0, pd_flags |-> 0]
NoResult == [errs |-> <<>>, stop |-> "unset"]
NoPage == [hdr |-> NoHeader, linp |-> <<>>, tuples |-> <<>>]
NoCall == [checkIndexes |-> FALSE, crossCheckIndexes |-> FALSE, blockFrom |-> 0,
           blockTo |-> 0, blockRangeGiven |-> FALSE]

\* a null item_bitmap pointer
NullBitmap == [null |-> TRUE, freed |-> FALSE, npages |-> 0, nbytes |-> 0,
               maxBytes |-> 0, pages |-> <<>>, data |-> {}]

\* the parts of the state an operation that does not use them leaves alone
IndexListIdle == indexes = <<>> /\ idxno = 0 /\ indexLog = <<>>
IndexIdle == ipage = NoPage /\ ires = NoResult /\ IndexListIdle
NoBitOp == [op |-> "none", pgno |-> 0, itm |-> 0, state |-> FALSE, ok |-> FALSE,
            lastSet |-> {}]
BitmapIdle == bitmap_heap = NullBitmap /\ bitmap_idx = NullBitmap /\ bitop = NoBitOp
LockIdle == locks = <<>>

\* pg_check.debug is off
DebugIdle == pgcheck_debug = FALSE /\ printed = <<>>

NoLookup == [oid |-> 0, crosscheck |-> "null", i |-> 0, result |-> "unset"]
LookupIdle == lookup = NoLookup

InitHeader ==
    /\ pc = "header"
    /\ header \in Headers
    /\ hres = NoResult
    /\ page = NoPage
    /\ desc = <<>>
    /\ item = 0
    /\ tres = <<>>
    /\ rel = <<>>
    /\ blkno = 0
    /\ nerrs = 0
    /\ call = NoCall
    /\ blockTo = 0
    /\ blockLog = <<>>
    /\ IndexIdle /\ BitmapIdle /\ LockIdle /\ DebugIdle /\ LookupIdle

CheckPageHeader ==
    /\ pc = "header"
    /\ hres' = check_page_header(header)
    /\ pc' = "header_done"
    /\ UNCHANGED <<header, tupleVars, tableVars, nerrs, indexVars, bitmapVars, lockVars, debugVars, lookupVars>>

NextHeader == CheckPageHeader

SpecHeader == InitHeader /\ [][NextHeader]_vars

(***************************************************************************)
(* Page contents                                                           *)
(*                                                                         *)
(* page.linp is the line pointer array at the start of the page and        *)
(* page.tuples gives, for an offset, the heap tuple written there; the     *)
(* bytes of the page that hold no tuple are zero.  A tuple is its header   *)
(* fields, the bytes from its t_hoff on (data), the byte repeated from     *)
(* there to the end of the page (fill) and the number of non-zero bytes    *)
(* that follow the page buffer in memory (beyond).                         *)
(***************************************************************************)
ZeroLp == [lp_off |-> 0, lp_len |-> 0, lp_flags |-> LP_UNUSED]

ZeroTuple == [t_infomask2 |-> 0, t_infomask |-> 0, t_hoff |-> 0, t_bits |-> 0,
              data |-> <<>>, fill |-> 0, beyond |-> 0]

\* header->pd_linp[i], i counted from 0
LinpAt(pg, i) == IF i + 1 <= Len(pg.linp) THEN pg.linp[i + 1] ELSE ZeroLp

\* (HeapTupleHeader) (buffer + lp_off)
TupleAt(pg, off) == IF off \in DOMAIN pg.tuples THEN pg.tuples[off] ELSE ZeroTuple

\* buffer[o], seen from the tuple t of line pointer lp
TupleByte(t, lp, o) ==
    IF o >= BLCKSZ
    THEN IF o - BLCKSZ < t.beyond THEN 65 ELSE 0
    ELSE LET k == o - (lp.lp_off + t.t_hoff)
         IN  IF k < 0 THEN 0
             ELSE IF k < Len(t.data) THEN t.data[k + 1] ELSE t.fill

\* PageGetMaxOffsetNumber
PageGetMaxOffsetNumber(h) ==
    IF h.pd_lower <= SizeOfPageHeaderData
    THEN 0
    ELSE (h.pd_lower - SizeOfPageHeaderData) \div SizeOfItemId

Max(a, b) == IF a >= b THEN a ELSE b

Min(S) == CHOOSE x \in S : \A y \in S : x <= y

(***************************************************************************)
(* heap.c: check_heap_tuple_attributes                                     *)
(***************************************************************************)
HEAP_NATTS_MASK == 2047
RawSizeLimit == 1048576
VARHDRSZ_EXTERNAL == 2
VARTAG_ONDISK == 18

\* HeapTupleHeaderGetNatts: t_infomask2 & HEAP_NATTS_MASK
HeapTupleHeaderGetNatts(t) == t.t_infomask2 % (HEAP_NATTS_MASK + 1)

\* t_infomask & HEAP_HASNULL (0x0001)
HeapHasNull(t) == t.t_infomask % 2 = 1

\* att_isnull(j, t_bits): the bit of attribute j is 0
att_isnull(j, t) == (t.t_bits \div (2 ^ (j % 8))) % 2 = 0

\* att_align_nominal
att_align_nominal(off, attalign) ==
    LET a == CASE attalign = "c" -> 1
               [] attalign = "s" -> 2
               [] attalign = "i" -> 4
               [] OTHER -> 8
    IN  ((off + a - 1) \div a) * a

\* att_align_pointer: a varlena whose first byte is not a pad byte is not aligned
att_align_pointer(off, attalign, attlen, byte) ==
    IF attlen = -1 /\ byte # 0 THEN off ELSE att_align_nominal(off, attalign)

\* VARTAG_SIZE
VarTagSize(tag) == IF tag = VARTAG_ONDISK THEN 16 ELSE IF tag \in {1, 2, 3} THEN 8 ELSE 0

\* VARSIZE_ANY of the bytes b0..b3 and the highest byte it reads
VARSIZE_ANY(b0, b1, b2, b3) ==
    IF b0 = 1
    THEN [len |-> VARHDRSZ_EXTERNAL + VarTagSize(b1), last |-> 1]
    ELSE IF b0 % 2 = 1
         THEN [len |-> (b0 \div 2) % 128, last |-> 0]
         ELSE [len |-> (b0 \div 4) + 64 * b1 + 16384 * b2 + 4194304 * (b3 % 64),
               last |-> 3]

\* VARATT_IS_COMPRESSED: (va_header & 0x03) == 0x02
VARATT_IS_COMPRESSED(b0) == b0 % 4 = 2

\* VARRAWSIZE_4B_C: va_rawsize, the four bytes after the length word
VARRAWSIZE_4B_C(b4, b5, b6, b7) == b4 + 256 * b5 + 65536 * b6 + 16777216 * b7

\* the test made on the raw size of a compressed value
RawSizeInvalid(raw) == raw < 0 \/ raw > RawSizeLimit

\* strnlen(buffer + off, n): n is a size_t, so a negative int is a bound
\* beyond any buffer. [len, last byte read (off - 1 when none is read)]
StrnlenAt(t, lp, off, n) ==
    LET cap  == IF n < 0 THEN Max(BLCKSZ + t.beyond + 1 - off, 0) ELSE n
        nuls == {k \in 0..(cap - 1) : TupleByte(t, lp, off + k) = 0}
    IN  IF nuls = {}
        THEN [len |-> cap, last |-> off + cap - 1]
        ELSE [len |-> Min(nuls), last |-> off + Min(nuls)]

\* the bound handed to strnlen: 'len' is declared in the loop body without
\* an initializer and read here before it is assigned, so it holds any value g
CStringBound(lp, off, g) == lp.lp_off + g + lp.lp_len - off

\* the test after the length is known
AttrOverflows(off, len, endoff) == off + len > endoff

\* the comparison of the attribute counts
TooManyAttributes_differ(tuplenatts, natts) == tuplenatts # natts

TooManyAttributes(tuplenatts, natts) == tuplenatts > natts

\* One pass of the loop over the attributes, for attribute st.j.
\* st: j, off, errs (what was counted, in order), seen (attributes the loop
\* reached), log (attributes whose length was taken), maxread (highest page
\* offset read), has_nulls, stopped (a break left the loop).
AttrStep(lp, t, attr, g, st) ==
    LET j == st.j
        is_varlena  == ~attr.attbyval /\ attr.attlen = -1
        is_varwidth == ~attr.attbyval /\ attr.attlen < 0
        seen1 == st.seen \cup {j}
        rd1 == Max(st.maxread, lp.lp_off + 21)
    IN  IF HeapHasNull(t) /\ att_isnull(j, t)
        THEN [st EXCEPT !.j = j + 1, !.seen = seen1, !.has_nulls = TRUE,
                        !.maxread = Max(rd1, lp.lp_off + 23 + (j \div 8))]
        ELSE
        LET rd2 == IF HeapHasNull(t) THEN Max(rd1, lp.lp_off + 23 + (j \div 8)) ELSE rd1
            rd3 == IF attr.attlen = -1 THEN Max(rd2, st.off) ELSE rd2
            off == att_align_pointer(st.off, attr.attalign, attr.attlen,
                                     TupleByte(t, lp, st.off))
            B(k) == TupleByte(t, lp, off + k)
            vs  == VARSIZE_ANY(B(0), B(1), B(2), B(3))
            cmp == is_varlena /\ VARATT_IS_COMPRESSED(B(0))
            bad == cmp /\ RawSizeInvalid(VARRAWSIZE_4B_C(B(4), B(5), B(6), B(7)))
            sl  == StrnlenAt(t, lp, off, CStringBound(lp, off, g))
            len == IF is_varlena THEN vs.len
                   ELSE IF is_varwidth THEN sl.len + 1
                   ELSE attr.attlen
            rd4 == IF is_varlena
                   THEN Max(rd3, off + (IF cmp THEN 7 ELSE vs.last))
                   ELSE IF is_varwidth THEN Max(rd3, sl.last) ELSE rd3
            endoff == lp.lp_off + lp.lp_len
            errs1 == AddIf(st.errs, bad, "rawsize")
            kind == IF is_varlena THEN "varlena"
                    ELSE IF is_varwidth THEN "cstring" ELSE "fixed"
            log1 == Append(st.log, [j |-> j, off |-> off, len |-> len, kind |-> kind])
        IN  IF is_varlena /\ vs.len < 0
            THEN [st EXCEPT !.off = off, !.seen = seen1, !.maxread = rd4,
                            !.errs = Append(st.errs, "negative"), !.stopped = TRUE]
            ELSE IF AttrOverflows(off, len, endoff)
            THEN [st EXCEPT !.off = off, !.seen = seen1, !.maxread = rd4, !.log = log1,
                            !.errs = Append(errs1, "overflow"), !.stopped = TRUE]
            ELSE [st EXCEPT !.j = j + 1, !.off = off + len, !.seen = seen1,
                            !.maxread = rd4, !.log = log1, !.errs = errs1]

\* the loop over the attributes going on after an attribute that overflows
RECURSIVE WalkAttrs_nobreak(_, _, _, _, _, _)
WalkAttrs_nobreak(lp, t, d, g, tuplenatts, st) ==
    IF st.j >= tuplenatts
    THEN st
    ELSE WalkAttrs_nobreak(lp, t, d, g, tuplenatts,
             LET n == AttrStep(lp, t, d[st.j + 1], g, st)
             IN  IF n.stopped THEN [n EXCEPT !.j = st.j + 1] ELSE n)

\* the loop over the attributes: for (j = 0; j < tuplenatts; j++), left by
\* the break after an attribute that overflows the tuple end
RECURSIVE WalkAttrs(_, _, _, _, _, _)
WalkAttrs(lp, t, d, g, tuplenatts, st) ==
    IF st.stopped \/ st.j >= tuplenatts
    THEN st
    ELSE WalkAttrs(lp, t, d, g, tuplenatts, AttrStep(lp, t, d[st.j + 1], g, st))

\* the two tests after the loop
AfterWalk(lp, t, st) ==
    LET e1 == AddIf(st.errs, HeapHasNull(t) /\ ~st.has_nulls, "hasnull")
        e2 == AddIf(e1, st.off > lp.lp_off + lp.lp_len, "end")
    IN  [st EXCEPT !.errs = e2, !.maxread = Max(st.maxread, lp.lp_off + 21)]

NoWalk == [j |-> 0, off |-> 0, errs |-> <<>>, seen |-> {}, log |-> <<>>,
           maxread |-> -1, has_nulls |-> FALSE, stopped |-> FALSE, walked |-> FALSE,
           tuplenatts |-> 0]

check_heap_tuple_attributes(pg, d, i, g) ==
    LET lp == LinpAt(pg, i)
        t  == TupleAt(pg, lp.lp_off)
        tuplenatts == HeapTupleHeaderGetNatts(t)
        st0 == [NoWalk EXCEPT !.off = lp.lp_off + t.t_hoff,
                              !.maxread = lp.lp_off + 22,
                              !.walked = TRUE, !.tuplenatts = tuplenatts]
    IN  IF TooManyAttributes(tuplenatts, Len(d))
        THEN [st0 EXCEPT !.errs = <<"natts">>]
        ELSE AfterWalk(lp, t, WalkAttrs(lp, t, d, g, tuplenatts, st0))

(***************************************************************************)
(* heap.c: check_heap_tuple, check_heap_tuples                             *)
(***************************************************************************)

\* [A,C,B] or [A,D,B] or [C,A,D] or [C,B,D]
Intersects(a, b, c, d) ==
    \/ (a < c /\ c < b) \/ (a < d /\ d < b)
    \/ (c < a /\ a < d) \/ (c < b /\ b < d)

\* the earlier line pointers the overlap loop passes over
WithoutStorage(lp2) ==
    \/ lp2.lp_flags = LP_UNUSED
    \/ lp2.lp_flags = LP_REDIRECT
    \/ (lp2.lp_flags = LP_DEAD /\ lp2.lp_len = 0)

\* the earlier line pointers j < i that item i is reported to intersect
OverlapsOf(pg, i) ==
    LET lp == LinpAt(pg, i)
    IN  {j \in 0..(i - 1) :
            /\ ~WithoutStorage(LinpAt(pg, j))
            /\ Intersects(lp.lp_off, lp.lp_off + lp.lp_len,
                          LinpAt(pg, j).lp_off,
                          LinpAt(pg, j).lp_off + LinpAt(pg, j).lp_len)}

\* the length, offset and position tests of an item with storage
BoundsErrors(pg, lp) ==
    LET e1 == AddIf(<<>>, lp.lp_len = 0, "len0")
        e2 == AddIf(e1, lp.lp_off = 0, "off0")
        e3 == AddIf(e2, lp.lp_off < pg.hdr.pd_upper, "below_upper")
    IN  AddIf(e3, lp.lp_off + lp.lp_len > pg.hdr.pd_special, "above_special")

RECURSIVE Repeat(_, _)
Repeat(tag, n) == IF n = 0 THEN <<>> ELSE Append(Repeat(tag, n - 1), tag)

\* what check_heap_tuple does with line pointer i: the violations it counts
\* (its return value is their number), the earlier items reported as
\* intersecting, and the attribute walk when there was one
check_heap_tuple(pg, d, i, g) ==
    LET lp == LinpAt(pg, i)
        noWalk(errs) == [errs |-> errs, overlaps |-> {}, walk |-> NoWalk]
    IN  IF lp.lp_flags = LP_REDIRECT
        THEN noWalk(AddIf(<<>>, lp.lp_len # 0, "redirect_len"))
        ELSE IF lp.lp_flags = LP_UNUSED
        THEN noWalk(AddIf(<<>>, lp.lp_len # 0, "unused_len"))
        ELSE IF lp.lp_flags = LP_DEAD /\ lp.lp_len = 0
        THEN noWalk(<<>>)
        ELSE IF lp.lp_flags \notin {LP_DEAD, LP_NORMAL}
        THEN noWalk(<<"lp_flags">>)
        ELSE LET w == check_heap_tuple_attributes(pg, d, i, g)
             IN  [errs |-> BoundsErrors(pg, lp)
                           \o Repeat("overlap", Cardinality(OverlapsOf(pg, i)))
                           \o w.errs,
                  overlaps |-> OverlapsOf(pg, i),
                  walk |-> w]

RECURSIVE SumErrs(_)
SumErrs(rs) == IF rs = <<>> THEN 0 ELSE Len(Head(rs).errs) + SumErrs(Tail(rs))

\* check_heap_tuples in one piece: the results of items 0 .. ntuples-1, in order
RECURSIVE HeapTupleResults(_, _, _, _)
HeapTupleResults(pg, d, g, n) ==
    IF n = 0 THEN <<>>
    ELSE Append(HeapTupleResults(pg, d, g, n - 1), check_heap_tuple(pg, d, n - 1, g))

(***************************************************************************)
(* check_heap_tuples, one line pointer at a time                           *)
(***************************************************************************)
MaxItems == 2
MaxAtts == 2

\* values the uninitialized 'len' may hold when the C string bound is computed
UninitLen == {-3, 0, 4}

INT4 == [attlen |-> 4, attbyval |-> TRUE, attalign |-> "i"]
TEXT == [attlen |-> -1, attbyval |-> FALSE, attalign |-> "i"]
CSTRING == [attlen |-> -2, attbyval |-> FALSE, attalign |-> "c"]
AttrTypes == {INT4, TEXT, CSTRING}

Descriptors == UNION {[1..n -> AttrTypes] : n \in 1..MaxAtts}

\* a header of the current layout with n line pointers that passes every check
GoodHeader(n) ==
    [pd_lower |-> SizeOfPageHeaderData + SizeOfItemId * n, pd_upper |-> 8000,
     pd_special |-> BLCKSZ, pd_pagesize_version |-> BLCKSZ + PG_PAGE_LAYOUT_VERSION,
     pd_flags |-> 0]

\* pages for the line pointer checks: no tuple bytes, every kind of line pointer
LinePointers ==
    [lp_off : {8000, 8050, 8100}, lp_len : {0, 50, 100},
     lp_flags : {LP_UNUSED, LP_NORMAL, LP_REDIRECT, LP_DEAD}]

OverlapPages ==
    UNION {{[hdr |-> GoodHeader(n), linp |-> l, tuples |-> <<>>] :
                l \in [1..n -> LinePointers]} : n \in 1..MaxItems}

\* pages for the attribute walk: one item, its tuple drawn from WalkTuples
DataPatterns ==
    { <<>>,
      <<7, 65, 65>>,
      <<32, 0, 0, 0, 65, 65, 65, 65>>,
      <<50, 0, 0, 0, 100, 0, 0, 0, 65, 65, 65, 65>>,
      <<50, 0, 0, 0, 0, 0, 32, 0, 65, 65, 65, 65>>,
      <<65, 66, 0>>,
      <<1, 0, 0, 0, 65, 0>>,
      <<1, 18>> }

NullChoices ==
    {[t_infomask |-> 0, t_bits |-> 0]}
        \cup {[t_infomask |-> 1, t_bits |-> b] : b \in {0, 1, 255}}

Trailers == {[fill |-> 0, beyond |-> 0], [fill |-> 65, beyond |-> 2]}

WalkTuples ==
    {[t_infomask2 |-> n, t_infomask |-> nc.t_infomask, t_hoff |-> h,
      t_bits |-> nc.t_bits, data |-> dp, fill |-> tr.fill, beyond |-> tr.beyond] :
        n \in 0..(MaxAtts + 1), nc \in NullChoices, h \in {24, 28},
        dp \in DataPatterns, tr \in Trailers}

WalkOffsets == {8128}

WalkPages ==
    {[hdr |-> GoodHeader(1),
      linp |-> <<[lp_off |-> w, lp_len |-> l, lp_flags |-> LP_NORMAL]>>,
      tuples |-> [o \in {w} |-> t]] :
        w \in WalkOffsets, l \in {1, 28, 40}, t \in WalkTuples}

InitTuples(pages, descs) ==
    /\ pc = "tuples"
    /\ header = NoHeader
    /\ hres = NoResult
    /\ page \in pages
    /\ desc \in descs
    /\ item = 0
    /\ tres = <<>>
    /\ rel = <<>>
    /\ blkno = 0
    /\ nerrs = 0
    /\ call = NoCall
    /\ blockTo = 0
    /\ blockLog = <<>>
    /\ IndexIdle /\ BitmapIdle /\ LockIdle /\ DebugIdle /\ LookupIdle

InitOverlap == InitTuples(OverlapPages, {<<INT4>>})

InitWalk == InitTuples(WalkPages, Descriptors)

\* one pass of the loop of check_heap_tuples
CheckHeapTuple ==
    /\ pc = "tuples"
    /\ item < PageGetMaxOffsetNumber(page.hdr)
    /\ \E g \in UninitLen : tres' = Append(tres, check_heap_tuple(page, desc, item, g))
    /\ item' = item + 1
    /\ UNCHANGED <<pc, headerVars, page, desc, tableVars, nerrs, indexVars, bitmapVars, lockVars, debugVars, lookupVars>>

\* the end of the loop: the sum is returned
CheckHeapTuplesReturn ==
    /\ pc = "tuples"
    /\ item >= PageGetMaxOffsetNumber(page.hdr)
    /\ nerrs' = SumErrs(tres)
    /\ pc' = "tuples_done"
    /\ UNCHANGED <<headerVars, tupleVars, tableVars, indexVars, bitmapVars, lockVars, debugVars, lookupVars>>

NextTuples == CheckHeapTuple \/ CheckHeapTuplesReturn

SpecOverlap == InitOverlap /\ [][NextTuples]_vars

SpecWalk == InitWalk /\ [][NextTuples]_vars

\* pages of two line pointers for the walk past an attribute that overflows:
\* the first item is short or long, the second lies below it or on it
StopTuples ==
    {t \in WalkTuples :
        /\ t.t_infomask2 \in {1, 2}
        /\ t.t_hoff = 24
        /\ t.data \in {<<>>, <<7, 65, 65>>, <<65, 66, 0>>}
        /\ t.fill = 0}

StopSecondTuples ==
    {t \in StopTuples : t.t_bits \in {0, 255} /\ t.data # <<7, 65, 65>> /\ t.t_infomask2 = 2
                        /\ (t.t_infomask = 1 <=> t.t_bits = 0)}

StopPages ==
    {[hdr |-> GoodHeader(2),
      linp |-> <<[lp_off |-> 8128, lp_len |-> l, lp_flags |-> LP_NORMAL],
                 [lp_off |-> 8088, lp_len |-> 40, lp_flags |-> f]>>,
      tuples |-> (8128 :> t0) @@ (8088 :> t1)] :
        l \in {1, 28, 40}, f \in {LP_NORMAL, LP_DEAD},
        t0 \in StopTuples, t1 \in StopSecondTuples}
    \cup
    {[hdr |-> GoodHeader(2),
      linp |-> <<[lp_off |-> 8128, lp_len |-> l, lp_flags |-> LP_NORMAL],
                 [lp_off |-> 8120, lp_len |-> 40, lp_flags |-> f]>>,
      tuples |-> (8128 :> t0) @@ (8120 :> t0)] :
        l \in {1, 28, 40}, f \in {LP_NORMAL, LP_DEAD}, t0 \in StopTuples}

StopDescriptors == {<<INT4, INT4>>, <<TEXT, INT4>>, <<CSTRING, INT4>>}

InitStop == InitTuples(StopPages, StopDescriptors)

SpecStop == InitStop /\ [][NextTuples]_vars

(***************************************************************************)
(* index.c: btree_check_page and the checks it calls                       *)
(*                                                                         *)
(* An index page is its header, its line pointers, the index tuples        *)
(* written on it (by offset), the BTPageOpaqueData found at                *)
(* raw_page + pd_special and, for block 0, the BTMetaPageData.  An index   *)
(* tuple is t_tid, t_info, the null bitmap that follows the 8 header       *)
(* bytes, and its data bytes as for a heap tuple.                          *)
(***************************************************************************)
BTREE_METAPAGE == 0
BTREE_MAGIC == 340322
BTREE_VERSION == 2
BTP_LEAF == 1
BTP_DELETED == 4
P_NONE == 0
P_HIKEY == 1
P_FIRSTKEY == 2
SizeOfIndexTupleData == 8
SizeOfIndexAttributeBitMap == 4
INDEX_SIZE_MASK == 8191
INDEX_NULL_MASK == 32768
MAXIMUM_ALIGNOF == 8
\* sizeof(BTPageOpaque): the size of the pointer type the code names
SizeOfBTPageOpaque == 8

\* flag & mask # 0, for a mask that is a power of two
HasFlag(flags, mask) == (flags \div mask) % 2 = 1

P_ISLEAF(opaque) == HasFlag(opaque.btpo_flags, BTP_LEAF)
P_ISDELETED(opaque) == HasFlag(opaque.btpo_flags, BTP_DELETED)
P_RIGHTMOST(opaque) == opaque.btpo_next = P_NONE

P_FIRSTDATAKEY_hikey(opaque) == P_HIKEY

P_FIRSTDATAKEY(opaque) == IF P_RIGHTMOST(opaque) THEN P_HIKEY ELSE P_FIRSTKEY

MAXALIGN(n) == ((n + MAXIMUM_ALIGNOF - 1) \div MAXIMUM_ALIGNOF) * MAXIMUM_ALIGNOF

IndexTupleSize(itup) == itup.t_info % (INDEX_SIZE_MASK + 1)
IndexTupleHasNulls(itup) == HasFlag(itup.t_info, INDEX_NULL_MASK)

IndexInfoFindDataOffset(t_info) ==
    IF ~HasFlag(t_info, INDEX_NULL_MASK)
    THEN MAXALIGN(SizeOfIndexTupleData)
    ELSE MAXALIGN(SizeOfIndexTupleData + SizeOfIndexAttributeBitMap)

ZeroIndexTuple == [t_tid |-> [blk |-> 0, posid |-> 0], t_info |-> 0, t_bits |-> 0,
                   data |-> <<>>, fill |-> 0, beyond |-> 0]

\* (IndexTuple) (raw_page + lp_off)
IndexTupleAt(pg, off) ==
    IF off \in DOMAIN pg.tuples THEN pg.tuples[off] ELSE ZeroIndexTuple

\* the data bytes of an index tuple, laid out as TupleByte reads them
IndexTupleBytes(itup) ==
    [t_hoff |-> IndexInfoFindDataOffset(itup.t_info), data |-> itup.data,
     fill |-> itup.fill, beyond |-> itup.beyond]

\* the level test of btree_check_page, made on a page that is not the meta page
LevelError_deleted(opaque) ==
    \/ P_ISLEAF(opaque) /\ opaque.level # 0
    \/ ~P_ISLEAF(opaque) /\ opaque.level = 0

LevelError(opaque) ==
    /\ ~P_ISDELETED(opaque)
    /\ \/ P_ISLEAF(opaque) /\ opaque.level # 0
       \/ ~P_ISLEAF(opaque) /\ opaque.level = 0

\* the test that lets btree_check_attributes return before the loop
SkipsFirstDataKey(opaque, offnum, dlen) ==
    ~P_ISLEAF(opaque) /\ offnum = P_FIRSTDATAKEY(opaque) /\ dlen = 0

\* One pass of the loop of btree_check_attributes, for attribute st.j.
\* The walk record is that of the heap walk; g is the value the
\* uninitialized 'len' holds when the C string bound is computed.
IndexAttrStep(lp, itup, attr, g, dlen, st) ==
    LET j == st.j
        t == IndexTupleBytes(itup)
        is_varlena  == ~attr.attbyval /\ attr.attlen = -1
        is_varwidth == ~attr.attbyval /\ attr.attlen < 0
        seen1 == st.seen \cup {j}
        rd1 == Max(st.maxread, lp.lp_off + 7)
    IN  IF IndexTupleHasNulls(itup) /\ att_isnull(j, itup)
        THEN [st EXCEPT !.j = j + 1, !.seen = seen1, !.has_nulls = TRUE,
                        !.maxread = Max(rd1, lp.lp_off + 8 + (j \div 8))]
        ELSE
        LET rd2 == IF IndexTupleHasNulls(itup)
                   THEN Max(rd1, lp.lp_off + 8 + (j \div 8)) ELSE rd1
            rd3 == IF attr.attlen = -1 THEN Max(rd2, st.off) ELSE rd2
            off == att_align_pointer(st.off, attr.attalign, attr.attlen,
                                     TupleByte(t, lp, st.off))
            B(k) == TupleByte(t, lp, off + k)
            vs  == VARSIZE_ANY(B(0), B(1), B(2), B(3))
            cmp == is_varlena /\ VARATT_IS_COMPRESSED(B(0))
            bad == cmp /\ RawSizeInvalid(VARRAWSIZE_4B_C(B(4), B(5), B(6), B(7)))
            sl  == StrnlenAt(t, lp, off, CStringBound(lp, off, g))
            len == IF is_varlena THEN vs.len
                   ELSE IF is_varwidth THEN sl.len + 1
                   ELSE attr.attlen
            rd4 == IF is_varlena
                   THEN Max(rd3, off + (IF cmp THEN 7 ELSE vs.last))
                   ELSE IF is_varwidth THEN Max(rd3, sl.last) ELSE rd3
            endoff == lp.lp_off + lp.lp_len
            errs1 == AddIf(st.errs, bad, "rawsize")
            kind == IF is_varlena THEN "varlena"
                    ELSE IF is_varwidth THEN "cstring" ELSE "fixed"
            log1 == Append(st.log, [j |-> j, off |-> off, len |-> len, kind |-> kind])
        IN  IF is_varlena /\ vs.len < 0
            THEN [st EXCEPT !.off = off, !.seen = seen1, !.maxread = rd4,
                            !.errs = Append(st.errs, "negative"), !.stopped = TRUE]
            ELSE IF dlen > 0 /\ AttrOverflows(off, len, endoff)
            THEN [st EXCEPT !.off = off, !.seen = seen1, !.maxread = rd4, !.log = log1,
                            !.errs = Append(errs1, "overflow"), !.stopped = TRUE]
            ELSE [st EXCEPT !.j = j + 1, !.off = off + (IF dlen > 0 THEN len ELSE 0),
                            !.seen = seen1, !.maxread = rd4, !.log = log1,
                            !.errs = errs1]

RECURSIVE IndexWalkAttrs(_, _, _, _, _, _)
IndexWalkAttrs(lp, itup, d, g, dlen, st) ==
    IF st.stopped \/ st.j >= Len(d)
    THEN st
    ELSE IndexWalkAttrs(lp, itup, d, g, dlen,
                        IndexAttrStep(lp, itup, d[st.j + 1], g, dlen, st))

\* the two tests after the loop of btree_check_attributes
IndexAfterWalk(lp, itup, st) ==
    LET e1 == AddIf(st.errs, IndexTupleHasNulls(itup) /\ ~st.has_nulls, "hasnull")
        e2 == AddIf(e1, MAXALIGN(st.off) > lp.lp_off + lp.lp_len, "end")
    IN  [st EXCEPT !.errs = e2, !.after = TRUE]

\* a walk that did not take place; 'skipped' is the return before the loop,
\* 'after' that the two tests after the loop were made
NoIndexWalk == [j |-> 0, off |-> 0, errs |-> <<>>, seen |-> {}, log |-> <<>>,
                maxread |-> -1, has_nulls |-> FALSE, stopped |-> FALSE,
                walked |-> FALSE, skipped |-> FALSE, after |-> FALSE]

\* btree_check_attributes for the item at offnum (counted from 1)
btree_check_attributes(pg, d, offnum, g, dlen) ==
    LET lp   == LinpAt(pg, offnum - 1)
        itup == IndexTupleAt(pg, lp.lp_off)
        st0  == [NoIndexWalk EXCEPT !.off = lp.lp_off + IndexInfoFindDataOffset(itup.t_info),
                                    !.maxread = lp.lp_off + 7, !.walked = TRUE]
    IN  IF SkipsFirstDataKey(pg.opaque, offnum, dlen)
        THEN [st0 EXCEPT !.skipped = TRUE]
        ELSE IndexAfterWalk(lp, itup, IndexWalkAttrs(lp, itup, d, g, dlen, st0))

\* the line pointers before i that btree_check_tuple reports as intersecting
IndexOverlapsOf(pg, i) ==
    LET lp == LinpAt(pg, i)
    IN  {j \in 0..(i - 1) :
            /\ LinpAt(pg, j).lp_flags = LP_NORMAL
            /\ Intersects(lp.lp_off, lp.lp_off + lp.lp_len,
                          LinpAt(pg, j).lp_off,
                          LinpAt(pg, j).lp_off + LinpAt(pg, j).lp_len)}

\* btree_check_tuple for line pointer i (counted from 0)
btree_check_tuple(pg, d, i, g) ==
    LET lp   == LinpAt(pg, i)
        itup == IndexTupleAt(pg, lp.lp_off)
        dlen == IndexTupleSize(itup) - IndexInfoFindDataOffset(itup.t_info)
        ov   == IndexOverlapsOf(pg, i)
        w    == btree_check_attributes(pg, d, i + 1, g, dlen)
    IN  IF lp.lp_flags = LP_UNUSED
        THEN [errs |-> <<>>, overlaps |-> {}, walk |-> NoIndexWalk, dlen |-> 0]
        ELSE IF lp.lp_flags # LP_NORMAL
        THEN [errs |-> <<"flags">>, overlaps |-> {}, walk |-> NoIndexWalk, dlen |-> 0]
        ELSE [errs |-> Repeat("overlap", Cardinality(ov)) \o w.errs,
              overlaps |-> ov, walk |-> w, dlen |-> dlen]

\* btree_check_tuples: the results of line pointers 0 .. n-1, in order
RECURSIVE btree_check_tuples(_, _, _, _)
btree_check_tuples(pg, d, g, n) ==
    IF n = 0 THEN <<>>
    ELSE Append(btree_check_tuples(pg, d, g, n - 1), btree_check_tuple(pg, d, n - 1, g))

\* the two tests made on the meta page
MetaErrors(meta) ==
    AddIf(AddIf(<<>>, meta.btm_magic # BTREE_MAGIC, "magic"),
          meta.btm_version # BTREE_VERSION, "version")

\* btree_check_page called without a bitmap (bitmap == NULL, as a check of
\* the index alone has none): the header, then the meta page or the opaque
\* area, the level and the tuples, whatever the header check returned
btree_check_page(pg, d, block, g) ==
    LET h  == check_page_header(pg.hdr)
        e1 == AddIf(<<>>, pg.hdr.pd_special > BLCKSZ - SizeOfBTPageOpaque, "special")
        e2 == AddIf(e1, LevelError(pg.opaque), "level")
        ts == btree_check_tuples(pg, d, g, PageGetMaxOffsetNumber(pg.hdr))
    IN  IF block = BTREE_METAPAGE
        THEN [hdr |-> h, meta |-> TRUE, errs |-> MetaErrors(pg.meta), tuples |-> <<>>]
        ELSE [hdr |-> h, meta |-> FALSE, errs |-> e2, tuples |-> ts]

\* the number btree_check_page returns
IndexPageNerrs(r) == HeaderNerrs(r.hdr) + Len(r.errs) + SumErrs(r.tuples)

(***************************************************************************)
(* btree_check_page on one page of an index                                *)
(***************************************************************************)
Opaques ==
    [btpo_flags : {0, BTP_LEAF, BTP_DELETED, BTP_LEAF + BTP_DELETED},
     level : {0, 1}, btpo_next : {P_NONE, 3}]

Metas == {[btm_magic |-> BTREE_MAGIC, btm_version |-> BTREE_VERSION],
          [btm_magic |-> 0, btm_version |-> 3]}

\* index tuples: t_info gives the size (8 or 16: no data; 12, 24: data) and
\* whether a null bitmap follows the header
IndexTuples ==
    [t_tid : {[blk |-> 0, posid |-> 1]}, t_info : {8, 12, 16 + INDEX_NULL_MASK,
                                                   24 + INDEX_NULL_MASK},
     t_bits : {0, 1}, data : {<<>>, <<7, 65, 65>>}, fill : {0}, beyond : {0}]

MaxIndexItems == 2

IndexHeaders ==
    {[GoodHeader(n) EXCEPT !.pd_special = BLCKSZ - 16] : n \in 1..MaxIndexItems}
        \cup {[GoodHeader(1) EXCEPT !.pd_special = BLCKSZ]}

\* item k of an index page lies at 8000 + 8 * (k - 1) and is 16 bytes long,
\* so that two neighbours intersect
IndexLinps(n) ==
    {[k \in 1..n |-> [lp_off |-> 8000 + 8 * (k - 1), lp_len |-> 16, lp_flags |-> f[k]]] :
        f \in [1..n -> {LP_UNUSED, LP_NORMAL, LP_DEAD}]}

IndexTupleOffsets == {8000 + 8 * k : k \in 0..MaxIndexItems}

GoodOpaque == [btpo_flags |-> BTP_LEAF, level |-> 0, btpo_next |-> P_NONE]
GoodMeta == [btm_magic |-> BTREE_MAGIC, btm_version |-> BTREE_VERSION]

\* block 0 is read as the meta page, block 1 as a page of the tree
IndexPages(block) ==
    UNION {{[hdr |-> h, linp |-> l, tuples |-> [o \in IndexTupleOffsets |-> t],
             opaque |-> op, meta |-> m] :
                l \in IndexLinps(PageGetMaxOffsetNumber(h)), t \in IndexTuples,
                op \in (IF block = BTREE_METAPAGE THEN {GoodOpaque} ELSE Opaques),
                m \in (IF block = BTREE_METAPAGE THEN Metas ELSE {GoodMeta})} :
           h \in IndexHeaders}

IndexDescriptors == {<<INT4>>, <<TEXT>>, <<INT4, CSTRING>>}

NoIndexResult == [hdr |-> NoResult, meta |-> FALSE, errs |-> <<>>, tuples |-> <<>>]

InitIndex ==
    /\ pc = "index_page"
    /\ header = NoHeader
    /\ hres = NoResult
    /\ page = NoPage
    /\ desc \in IndexDescriptors
    /\ item = 0
    /\ tres = <<>>
    /\ rel = <<>>
    /\ blkno \in {BTREE_METAPAGE, 1}
    /\ nerrs = 0
    /\ call = NoCall
    /\ blockTo = 0
    /\ blockLog = <<>>
    /\ ipage \in IndexPages(blkno)
    /\ ires = NoIndexResult
    /\ IndexListIdle /\ BitmapIdle /\ LockIdle /\ DebugIdle /\ LookupIdle

\* btree_check_page(rel, header, blkno, raw_page, NULL)
CheckIndexPage ==
    /\ pc = "index_page"
    /\ \E g \in UninitLen : ires' = btree_check_page(ipage, desc, blkno, g)
    /\ nerrs' = IndexPageNerrs(ires')
    /\ pc' = "index_page_done"
    /\ UNCHANGED <<headerVars, tupleVars, tableVars, ipage, indexes, idxno, indexLog,
                   bitmapVars, lockVars, debugVars, lookupVars>>

NextIndex == CheckIndexPage

SpecIndex == InitIndex /\ [][NextIndex]_vars

(***************************************************************************)
(* item-bitmap.c                                                           *)
(*                                                                         *)
(* An item_bitmap is npages, nbytes, maxBytes, the array pages (the        *)
(* running sum of the items of the pages added so far) and data, kept here *)
(* as the set of the positions of its bits that are 1.                     *)
(***************************************************************************)
PALLOC_CHUNK == 1024

\* the / and % of C on int, which truncate towards zero
CDiv(a, b) == IF a >= 0 THEN a \div b ELSE -((-a) \div b)
CMod(a, b) == a - b * CDiv(a, b)

\* bitmap->pages[k], k counted from 0; an element outside [0, npages) is
\* read as 0 (bitmap_compare reads pages[npages-1] of a bitmap of no page
\* only to compare it and to log a warning)
PagesAt(bm, k) == IF k + 1 \in DOMAIN bm.pages THEN bm.pages[k + 1] ELSE 0

\* bitmap_init: data is zeroed, pages is allocated and left as it is
bitmap_init(npages) ==
    [null |-> FALSE, freed |-> FALSE, npages |-> npages, nbytes |-> 0,
     maxBytes |-> PALLOC_CHUNK * (((npages \div PALLOC_CHUNK) \div 8) + 1),
     pages |-> [k \in 1..npages |-> 0], data |-> {}]

\* bitmap_copy: everything but the bits
bitmap_copy(src) == [src EXCEPT !.data = {}]

\* a reset that leaves the bits as they are
bitmap_reset_keep(bm) == bm

\* bitmap_reset
bitmap_reset(bm) == [bm EXCEPT !.data = {}]

\* what bitmap_add_page stores in pages[page]
RunningSum_perpage(bm, pgno, items) == items

RunningSum(bm, pgno, items) ==
    IF pgno = 0 THEN items ELSE items + PagesAt(bm, pgno - 1)

\* bitmap_add_page
bitmap_add_page(bm, pgno, items) ==
    LET sum    == RunningSum(bm, pgno, items)
        nbytes == (sum + 7) \div 8
    IN  [bm EXCEPT !.pages[pgno + 1] = sum, !.nbytes = nbytes,
                   !.maxBytes = IF nbytes > bm.maxBytes
                                THEN bm.maxBytes + PALLOC_CHUNK ELSE bm.maxBytes]

\* GetBitmapIndex
GetBitmapIndex(bm, pgno, itm) ==
    IF pgno = 0 THEN itm ELSE PagesAt(bm, pgno - 1) + itm

\* the three range tests of bitmap_set_item and bitmap_get_item
OutOfRange(bm, pgno, itm) ==
    \/ pgno >= bm.npages
    \/ CDiv(GetBitmapIndex(bm, pgno, itm), 8) > bm.nbytes
    \/ itm >= PagesAt(bm, pgno)

\* bitmap_set_item: [bm, ok].  With a negative index (item -1 of a page
\* before which no item was added) byteIdx is 0 and bitIdx negative: the
\* shifted value has no bit in the low byte and data[0] is left as it is.
bitmap_set_item(bm, pgno, itm, state) ==
    LET idx == GetBitmapIndex(bm, pgno, itm)
    IN  IF OutOfRange(bm, pgno, itm)
        THEN [bm |-> bm, ok |-> FALSE]
        ELSE IF idx < 0
        THEN [bm |-> bm, ok |-> TRUE]
        ELSE [bm |-> [bm EXCEPT !.data = IF state THEN @ \cup {idx} ELSE @ \ {idx}],
              ok |-> TRUE]

\* bitmap_get_item: data[byteIdx] && (1 << bitIdx), true when any bit of
\* the byte is 1
bitmap_get_item(bm, pgno, itm) ==
    LET idx == GetBitmapIndex(bm, pgno, itm)
        byteIdx == CDiv(idx, 8)
    IN  /\ ~OutOfRange(bm, pgno, itm)
        /\ \E b \in bm.data : b \div 8 = byteIdx

\* bitmap_count: the bits of the first nbytes bytes
bitmap_count(bm) == Cardinality({b \in bm.data : b \div 8 < bm.nbytes})

\* bitmap_compare
bitmap_compare(a, b) ==
    IF a.npages # b.npages
    THEN Max(PagesAt(a, a.npages - 1), PagesAt(b, b.npages - 1))
    ELSE Cardinality({x \in (a.data \ b.data) \cup (b.data \ a.data) :
                         x \div 8 < a.nbytes})

\* the elements of the two pages arrays bitmap_compare reads, by index: the
\* last one of each bitmap, whether or not the numbers of pages differ
bitmap_compare_reads(a, b) ==
    [a |-> {a.npages - 1}, b |-> {b.npages - 1}]

\* the first loop of bitmap_add_heap_items over the items 0 .. n-1:
\* NORMAL and REDIRECT items are set
RECURSIVE SetHeapItems(_, _, _, _)
SetHeapItems(r, pg, pgno, n) ==
    IF n = 0 THEN r
    ELSE LET r1 == SetHeapItems(r, pg, pgno, n - 1)
             lp == LinpAt(pg, n - 1)
             s  == bitmap_set_item(r1.bm, pgno, n - 1, TRUE)
         IN  IF lp.lp_flags \in {LP_NORMAL, LP_REDIRECT}
             THEN [bm |-> s.bm, nerrs |-> r1.nerrs + (IF s.ok THEN 0 ELSE 1)]
             ELSE r1

\* the second loop: the item a REDIRECT item points to (lp_off - 1) is
\* cleared when bitmap_get_item finds it set
RECURSIVE ClearRedirectTargets(_, _, _, _)
ClearRedirectTargets(r, pg, pgno, n) ==
    IF n = 0 THEN r
    ELSE LET r1 == ClearRedirectTargets(r, pg, pgno, n - 1)
             lp == LinpAt(pg, n - 1)
             s  == bitmap_set_item(r1.bm, pgno, lp.lp_off - 1, FALSE)
         IN  IF lp.lp_flags = LP_REDIRECT /\ bitmap_get_item(r1.bm, pgno, lp.lp_off - 1)
             THEN [bm |-> s.bm, nerrs |-> r1.nerrs + (IF s.ok THEN 0 ELSE 1)]
             ELSE r1

\* bitmap_add_heap_items: [bm, nerrs]
bitmap_add_heap_items(bm, pg, pgno) ==
    LET ntuples == PageGetMaxOffsetNumber(pg.hdr)
        r0 == [bm |-> bitmap_add_page(bm, pgno, ntuples), nerrs |-> 0]
    IN  ClearRedirectTargets(SetHeapItems(r0, pg, pgno, ntuples), pg, pgno, ntuples)

\* the loop of bitmap_add_index_items over the items 0 .. n-1: every line
\* pointer is read as an index tuple and its t_tid set
RECURSIVE SetIndexItems(_, _, _)
SetIndexItems(r, pg, n) ==
    IF n = 0 THEN r
    ELSE LET r1   == SetIndexItems(r, pg, n - 1)
             itup == IndexTupleAt(pg, LinpAt(pg, n - 1).lp_off)
             s    == bitmap_set_item(r1.bm, itup.t_tid.blk, itup.t_tid.posid - 1, TRUE)
         IN  [bm |-> s.bm, nerrs |-> r1.nerrs + (IF s.ok THEN 0 ELSE 1)]

\* bitmap_add_index_items: [bm, nerrs]
bitmap_add_index_items(bm, pg) ==
    SetIndexItems([bm |-> bm, nerrs |-> 0], pg, PageGetMaxOffsetNumber(pg.hdr))

(***************************************************************************)
(* pg_check.c: check_table                                                 *)
(*                                                                         *)
(* The relation is a table and the caller a superuser.                     *)
(***************************************************************************)
MaxBlocks == 2

\* headers of the blocks of the tables checked: a good page, the all-zero
\* page, a new page and an obsolete page that have a line pointer, and two
\* pages of the current layout that fail a header check
TableHeaders ==
    { GoodHeader(1),
      NoHeader,
      [GoodHeader(1) EXCEPT !.pd_upper = 0],
      [GoodHeader(1) EXCEPT !.pd_pagesize_version = BLCKSZ + 3],
      [GoodHeader(1) EXCEPT !.pd_special = 100],
      [GoodHeader(1) EXCEPT !.pd_flags = 8] }

TableLinps ==
    { <<[lp_off |-> 8100, lp_len |-> 50, lp_flags |-> LP_NORMAL]>>,
      <<[lp_off |-> 0, lp_len |-> 50, lp_flags |-> LP_UNUSED]>> }

TablePages == [hdr : TableHeaders, linp : TableLinps, tuples : {<<>>}]

Tables == UNION {[1..n -> TablePages] : n \in 0..MaxBlocks}

TableCalls(nblocks) ==
    {NoCall} \cup
    {[checkIndexes |-> FALSE, crossCheckIndexes |-> FALSE, blockFrom |-> f,
      blockTo |-> t, blockRangeGiven |-> TRUE] : f \in 0..nblocks, t \in 0..nblocks}
    \cup
    {[checkIndexes |-> ci, crossCheckIndexes |-> cc, blockFrom |-> 0,
      blockTo |-> nblocks, blockRangeGiven |-> TRUE] : ci \in BOOLEAN, cc \in BOOLEAN}

InitTable ==
    /\ pc = "check_table"
    /\ header = NoHeader
    /\ hres = NoResult
    /\ page = NoPage
    /\ desc = <<INT4>>
    /\ item = 0
    /\ tres = <<>>
    /\ rel \in Tables
    /\ blkno = 0
    /\ nerrs = 0
    /\ call \in TableCalls(Len(rel))
    /\ blockTo = 0
    /\ blockLog = <<>>
    /\ IndexIdle /\ BitmapIdle /\ LockIdle /\ DebugIdle /\ LookupIdle

BTREE_AM_OID == 403

\* LOCKMODE values, by name
AccessShareLock == "AccessShareLock"
ShareRowExclusiveLock == "ShareRowExclusiveLock"

\* the mode check_table opens and closes the table with
TableLockMode(c) ==
    IF c.crossCheckIndexes THEN ShareRowExclusiveLock ELSE AccessShareLock

\* the mode check_index_oid opens the index with
IndexLockMode(bm) == IF ~bm.null THEN ShareRowExclusiveLock ELSE AccessShareLock

LockEvent(op, what, mode) == [op |-> op, rel |-> what, mode |-> mode]

\* bitmap_free
bitmap_free(bm) == [bm EXCEPT !.freed = TRUE]

\* the block loop of check_index_oid over the blocks 0 .. n-1.  The page
\* checks it calls, check_index_page and (past block 0) check_index_tuples,
\* are those of btree_check_page; a leaf page then goes to
\* bitmap_add_index_items when a bitmap was passed.
RECURSIVE IndexBlocks(_, _, _, _)
IndexBlocks(ix, bm, g, n) ==
    IF n = 0 THEN [nerrs |-> 0, bm |-> bm, blocks |-> <<>>]
    ELSE LET r   == IndexBlocks(ix, bm, g, n - 1)
             pg  == ix.pages[n]
             chk == btree_check_page(pg, ix.desc, n - 1, g)
             add == IF n - 1 > 0 /\ ~bm.null /\ P_ISLEAF(pg.opaque)
                    THEN bitmap_add_index_items(r.bm, pg)
                    ELSE [bm |-> r.bm, nerrs |-> 0]
         IN  [nerrs |-> r.nerrs + IndexPageNerrs(chk) + add.nerrs,
              bm |-> add.bm, blocks |-> Append(r.blocks, n - 1)]

\* check_index_oid(indexOid, bitmap): [nerrs, bm, locks, blocks]
check_index_oid(ix, name, bm, g) ==
    IF ix.relam # BTREE_AM_OID
    THEN [nerrs |-> 0, bm |-> bm, blocks |-> <<>>,
          locks |-> <<LockEvent("open", name, IndexLockMode(bm)),
                      LockEvent("close", name, AccessShareLock)>>]
    ELSE [locks |-> <<LockEvent("open", name, IndexLockMode(bm)),
                      LockEvent("close", name, IndexLockMode(bm))>>]
         @@ IndexBlocks(ix, bm, g, Len(ix.pages))

\* check_table up to the loop: the argument check, relation_open, the range
\* and, for a full scan with a cross-check, bitmap_init
CheckTableOpen ==
    /\ pc = "check_table"
    /\ IF call.blockRangeGiven /\ call.checkIndexes
       THEN /\ pc' = "error"
            /\ UNCHANGED <<blkno, blockTo, bitmap_heap, locks>>
       ELSE /\ pc' = "blocks"
            /\ locks' = Append(locks, LockEvent("open", "table", TableLockMode(call)))
            /\ blkno' = IF call.blockRangeGiven THEN call.blockFrom ELSE 0
            /\ blockTo' = IF call.blockRangeGiven THEN call.blockTo ELSE Len(rel)
            /\ bitmap_heap' = IF ~call.blockRangeGiven /\ call.crossCheckIndexes
                              THEN bitmap_init(Len(rel)) ELSE bitmap_heap
    /\ UNCHANGED <<headerVars, tupleVars, rel, call, blockLog, nerrs, indexVars,
                   bitmap_idx, debugVars, lookupVars, bitop>>

\* the block loops run over the closed range blockFrom .. blockTo
MoreBlocks_inclusive(b, to) == b <= to

\* the condition of the block loops of check_table and check_index:
\* for (blkno = blockFrom; blkno < blockTo; blkno++)
MoreBlocks(b, to) == b < to

\* bitmap_print is handed the pointer as it is; the log keeps what it got
DebugPrinted(bm) == IF pgcheck_debug THEN Append(printed, bm) ELSE printed

\* one pass of the block loop: the page is copied, its header checked, then
\* its tuples, then its items are added to the heap bitmap if there is one.
\* ReadBufferExtended returns a page for a block the relation has.
CheckTableBlock ==
    /\ pc = "blocks"
    /\ MoreBlocks(blkno, blockTo)
    /\ blkno < Len(rel)
    /\ \E g \in UninitLen :
         LET pg == rel[blkno + 1]
             h  == check_page_header(pg.hdr)
             ts == HeapTupleResults(pg, desc, g, PageGetMaxOffsetNumber(pg.hdr))
         IN  /\ nerrs' = nerrs + HeaderNerrs(h) + SumErrs(ts)
             /\ blockLog' = Append(blockLog,
                    [blk |-> blkno, hdr |-> h, tuples |-> ts,
                     examined |-> {k - 1 : k \in 1..Len(ts)}])
    /\ bitmap_heap' = IF ~bitmap_heap.null
                      THEN bitmap_add_heap_items(bitmap_heap, rel[blkno + 1], blkno).bm
                      ELSE bitmap_heap
    /\ blkno' = blkno + 1
    /\ UNCHANGED <<pc, headerVars, tupleVars, rel, call, blockTo, indexVars,
                   bitmap_idx, lockVars, debugVars, lookupVars, bitop>>

\* ReadBufferExtended on a block past the end of the relation raises an
\* error: the call ends there
CheckTableReadPastEnd ==
    /\ pc = "blocks"
    /\ MoreBlocks(blkno, blockTo)
    /\ blkno >= Len(rel)
    /\ pc' = "error"
    /\ UNCHANGED <<headerVars, tupleVars, rel, blkno, nerrs, call, blockTo, blockLog,
                   indexVars, bitmapVars, lockVars, debugVars, lookupVars>>

\* after the loop with pg_check.debug on and no heap bitmap: bitmap_print
\* reads bitmap->nbytes through the null pointer, and the backend can die
\* there (CheckTableIndexes and CheckTableReturn are the run that goes on)
CheckTablePrintNull ==
    /\ pc = "blocks"
    /\ ~MoreBlocks(blkno, blockTo)
    /\ pgcheck_debug
    /\ bitmap_heap.null
    /\ printed' = DebugPrinted(bitmap_heap)
    /\ pc' = "crashed"
    /\ UNCHANGED <<headerVars, tupleVars, rel, blkno, nerrs, call, blockTo, blockLog,
                   indexVars, bitmapVars, lockVars, pgcheck_debug, lookupVars>>

\* the index loop entered while blocks of the heap are still to be read
CheckTableIndexes_early ==
    /\ pc = "blocks"
    /\ call.checkIndexes
    /\ pc' = "indexes"
    /\ printed' = DebugPrinted(bitmap_heap)
    /\ bitmap_idx' = IF ~bitmap_heap.null THEN bitmap_copy(bitmap_heap) ELSE bitmap_idx
    /\ idxno' = 0
    /\ UNCHANGED <<headerVars, tupleVars, tableVars, nerrs, ipage, ires, indexes,
                   indexLog, bitmap_heap, lockVars, pgcheck_debug, lookupVars, bitop>>

\* after the loop, checkIndexes set: with pg_check.debug on the heap bitmap
\* pointer goes to bitmap_print, then the index bitmap is copied from the
\* heap bitmap if there is one
CheckTableIndexes ==
    /\ pc = "blocks"
    /\ ~MoreBlocks(blkno, blockTo)
    /\ call.checkIndexes
    /\ pc' = "indexes"
    /\ printed' = DebugPrinted(bitmap_heap)
    /\ bitmap_idx' = IF ~bitmap_heap.null THEN bitmap_copy(bitmap_heap) ELSE bitmap_idx
    /\ idxno' = 0
    /\ UNCHANGED <<headerVars, tupleVars, tableVars, nerrs, ipage, ires, indexes,
                   indexLog, bitmap_heap, lockVars, pgcheck_debug, lookupVars, bitop>>

\* one pass of the loop over the indexes: reset, check_index_oid, compare
CheckTableIndex ==
    /\ pc = "indexes"
    /\ idxno < Len(indexes)
    /\ \E g \in UninitLen :
       \E b0 \in {IF ~bitmap_heap.null THEN bitmap_reset(bitmap_idx) ELSE bitmap_idx} :
       \E r \in {check_index_oid(indexes[idxno + 1], "index", b0, g)} :
       \E ndiffs \in {IF ~bitmap_heap.null THEN bitmap_compare(bitmap_heap, r.bm) ELSE 0} :
         /\ nerrs' = nerrs + r.nerrs + ndiffs
         /\ bitmap_idx' = r.bm
         /\ printed' = IF ~bitmap_heap.null THEN DebugPrinted(r.bm) ELSE printed
         /\ locks' = locks \o r.locks
         /\ indexLog' = Append(indexLog,
                [idx |-> idxno, nerrs |-> r.nerrs, ndiffs |-> ndiffs,
                 blocks |-> r.blocks, start |-> b0, after |-> r.bm,
                 pagesRead |-> IF ~bitmap_heap.null
                               THEN bitmap_compare_reads(bitmap_heap, r.bm)
                               ELSE [a |-> {}, b |-> {}],
                 heap |-> bitmap_heap, heapBlocks |-> Len(blockLog)])
    /\ idxno' = idxno + 1
    /\ UNCHANGED <<pc, headerVars, tupleVars, tableVars, ipage, ires, indexes,
                   bitmap_heap, pgcheck_debug, lookupVars, bitop>>

\* the end of check_table: the bitmaps are freed, the table is closed
CloseTable ==
    /\ pc' = "check_table_done"
    /\ bitmap_heap' = IF ~bitmap_heap.null THEN bitmap_free(bitmap_heap) ELSE bitmap_heap
    /\ bitmap_idx' = IF ~bitmap_idx.null THEN bitmap_free(bitmap_idx) ELSE bitmap_idx
    /\ locks' = Append(locks, LockEvent("close", "table", TableLockMode(call)))
    /\ UNCHANGED <<headerVars, tupleVars, tableVars, nerrs, indexVars, pgcheck_debug,
                   lookupVars, bitop>>

\* after the loop over the indexes
CheckTableIndexesDone ==
    /\ pc = "indexes"
    /\ idxno >= Len(indexes)
    /\ UNCHANGED printed
    /\ CloseTable

\* after the block loop when no index is checked: with pg_check.debug on
\* the heap bitmap pointer goes to bitmap_print
CheckTableReturn ==
    /\ pc = "blocks"
    /\ ~MoreBlocks(blkno, blockTo)
    /\ ~call.checkIndexes
    /\ printed' = DebugPrinted(bitmap_heap)
    /\ CloseTable

NextTable == CheckTableOpen \/ CheckTableBlock \/ CheckTableReturn

SpecTable == InitTable /\ [][NextTable]_vars

(***************************************************************************)
(* check_table with its indexes: pg_check_table(rel, checkIndexes,          *)
(* crossCheckIndexes) on a table of well-formed pages with at most one     *)
(* index                                                                   *)
(***************************************************************************)
\* the t_infomask2 bits of a HOT chain; bitmap_add_heap_items reads neither
HEAP_HOT_UPDATED == 16384
HEAP_ONLY_TUPLE == 32768

\* HeapTupleHeaderIsHeapOnly
HeapTupleHeaderIsHeapOnly(t) == HasFlag(t.t_infomask2, HEAP_ONLY_TUPLE)

\* a heap tuple of one int4 attribute, flags added to its t_infomask2
CrossTuple(flags) ==
    [t_infomask2 |-> 1 + flags, t_infomask |-> 0, t_hoff |-> 24, t_bits |-> 0,
     data |-> <<1, 0, 0, 0>>, fill |-> 0, beyond |-> 0]

\* item k of a heap page lies at BLCKSZ - 32 * k
CrossOffset(k) == BLCKSZ - 32 * k

NormalItem(k) == [lp_off |-> CrossOffset(k), lp_len |-> 28, lp_flags |-> LP_NORMAL]
RedirectItem(to) == [lp_off |-> to, lp_len |-> 0, lp_flags |-> LP_REDIRECT]
UnusedItem == [lp_off |-> 0, lp_len |-> 0, lp_flags |-> LP_UNUSED]
DeadItem == [lp_off |-> 0, lp_len |-> 0, lp_flags |-> LP_DEAD]

\* a heap page of the items its, the NORMAL item k holding a tuple with
\* the flags fl[k]
CrossHeapPage(its, fl) ==
    [hdr |-> GoodHeader(Len(its)), linp |-> its,
     tuples |-> [o \in {CrossOffset(k) : k \in 1..Len(its)} |->
                    CrossTuple(fl[(BLCKSZ - o) \div 32])]]

\* the heap pages: one tuple; a tuple and its heap-only successor; a
\* redirect to a heap-only tuple; an unused and a dead item; four tuples;
\* no item
CrossHeapPages ==
    { CrossHeapPage(<<NormalItem(1)>>, <<0>>),
      CrossHeapPage(<<NormalItem(1), NormalItem(2)>>, <<HEAP_HOT_UPDATED, HEAP_ONLY_TUPLE>>),
      CrossHeapPage(<<RedirectItem(2), NormalItem(2)>>, <<0, HEAP_ONLY_TUPLE>>),
      CrossHeapPage(<<UnusedItem, DeadItem>>, <<0, 0>>),
      CrossHeapPage(<<NormalItem(1), NormalItem(2), NormalItem(3), NormalItem(4)>>,
                    <<0, 0, 0, 0>>),
      CrossHeapPage(<<>>, <<>>) }

CrossHeaps == UNION {[1..n -> CrossHeapPages] : n \in 0..MaxBlocks}

\* the heap tuples the index entries point to
CrossTids == {[blk |-> 0, posid |-> 1], [blk |-> 0, posid |-> 2],
              [blk |-> 1, posid |-> 5]}

\* an index tuple of one int4 attribute: 8 bytes of header, 8 of data
CrossIndexTuple(tid) ==
    [t_tid |-> tid, t_info |-> 16, t_bits |-> 0, data |-> <<1, 0, 0, 0>>,
     fill |-> 0, beyond |-> 0]

\* a leaf page holding the entries tids, in order
CrossLeafPage(tids, next) ==
    [hdr |-> [GoodHeader(Len(tids)) EXCEPT !.pd_special = BLCKSZ - 16],
     linp |-> [k \in 1..Len(tids) |->
                  [lp_off |-> 8000 + 16 * k, lp_len |-> 16, lp_flags |-> LP_NORMAL]],
     tuples |-> [o \in {8000 + 16 * k : k \in 1..Len(tids)} |->
                    CrossIndexTuple(tids[(o - 8000) \div 16])],
     opaque |-> [btpo_flags |-> BTP_LEAF, level |-> 0, btpo_next |-> next],
     meta |-> GoodMeta]

CrossMetaPage ==
    [hdr |-> [GoodHeader(0) EXCEPT !.pd_special = BLCKSZ], linp |-> <<>>,
     tuples |-> <<>>, opaque |-> GoodOpaque, meta |-> GoodMeta]

HASH_AM_OID == 405

\* the indexes: a b-tree of a meta page and one leaf page, the rightmost
\* or one with a high key and a right sibling, or a hash index
CrossIndexes ==
    {[relam |-> BTREE_AM_OID, desc |-> <<INT4>>,
      pages |-> <<CrossMetaPage, CrossLeafPage(tids, P_NONE)>>] :
        tids \in UNION {[1..n -> CrossTids] : n \in 0..2}}
    \cup
    {[relam |-> BTREE_AM_OID, desc |-> <<INT4>>,
      pages |-> <<CrossMetaPage, CrossLeafPage(<<tid>>, 3)>>] : tid \in CrossTids}
    \cup {[relam |-> HASH_AM_OID, desc |-> <<INT4>>, pages |-> <<CrossMetaPage>>]}

\* pg_check_table(rel, checkIndexes, crossCheckIndexes), one of the two set
CrossCalls ==
    {c \in {[checkIndexes |-> ci, crossCheckIndexes |-> cc, blockFrom |-> 0,
             blockTo |-> 0, blockRangeGiven |-> FALSE] : ci \in BOOLEAN, cc \in BOOLEAN} :
        c.checkIndexes \/ c.crossCheckIndexes}

InitCross ==
    /\ pc = "check_table"
    /\ header = NoHeader
    /\ hres = NoResult
    /\ page = NoPage
    /\ desc = <<INT4>>
    /\ item = 0
    /\ tres = <<>>
    /\ rel \in CrossHeaps
    /\ blkno = 0
    /\ nerrs = 0
    /\ call \in CrossCalls
    /\ blockTo = 0
    /\ blockLog = <<>>
    /\ ipage = NoPage
    /\ ires = NoResult
    /\ indexes \in {<<>>} \cup {<<ix>> : ix \in CrossIndexes}
    /\ idxno = 0
    /\ indexLog = <<>>
    /\ BitmapIdle /\ LockIdle /\ DebugIdle /\ LookupIdle

NextCross ==
    \/ CheckTableOpen
    \/ CheckTableBlock
    \/ CheckTableIndexes
    \/ CheckTableIndex
    \/ CheckTableIndexesDone
    \/ CheckTableReturn

SpecCross == InitCross /\ [][NextCross]_vars

\* pg_check_table(rel, true, true) on a table with two indexes
PairHeapPages ==
    { CrossHeapPage(<<NormalItem(1)>>, <<0>>),
      CrossHeapPage(<<NormalItem(1), NormalItem(2), NormalItem(3), NormalItem(4)>>,
                    <<0, 0, 0, 0>>) }

PairHeaps == UNION {[1..n -> PairHeapPages] : n \in 0..MaxBlocks}

InitPairs ==
    /\ pc = "check_table"
    /\ header = NoHeader
    /\ hres = NoResult
    /\ page = NoPage
    /\ desc = <<INT4>>
    /\ item = 0
    /\ tres = <<>>
    /\ rel \in PairHeaps
    /\ blkno = 0
    /\ nerrs = 0
    /\ call = [checkIndexes |-> TRUE, crossCheckIndexes |-> TRUE, blockFrom |-> 0,
               blockTo |-> 0, blockRangeGiven |-> FALSE]
    /\ blockTo = 0
    /\ blockLog = <<>>
    /\ ipage = NoPage
    /\ ires = NoResult
    /\ indexes \in {<<ix1, ix2>> : ix1 \in CrossIndexes, ix2 \in CrossIndexes}
    /\ idxno = 0
    /\ indexLog = <<>>
    /\ BitmapIdle /\ LockIdle /\ DebugIdle /\ LookupIdle

NextPairs ==
    \/ CheckTableOpen
    \/ CheckTableBlock
    \/ CheckTableIndexes
    \/ CheckTableIndex
    \/ CheckTableIndexesDone

SpecPairs == InitPairs /\ [][NextPairs]_vars

\* check_table with pg_check.debug on or off: the full scans with and
\* without indexes and cross-check, and the scans of a block range
DebugCalls(nblocks) ==
    {[checkIndexes |-> ci, crossCheckIndexes |-> cc, blockFrom |-> 0,
      blockTo |-> 0, blockRangeGiven |-> FALSE] : ci \in BOOLEAN, cc \in BOOLEAN}
    \cup
    {[checkIndexes |-> FALSE, crossCheckIndexes |-> FALSE, blockFrom |-> f,
      blockTo |-> nblocks, blockRangeGiven |-> TRUE] : f \in 0..nblocks}

InitDebug ==
    /\ pc = "check_table"
    /\ header = NoHeader
    /\ hres = NoResult
    /\ page = NoPage
    /\ desc = <<INT4>>
    /\ item = 0
    /\ tres = <<>>
    /\ rel \in PairHeaps
    /\ blkno = 0
    /\ nerrs = 0
    /\ call \in DebugCalls(Len(rel))
    /\ blockTo = 0
    /\ blockLog = <<>>
    /\ ipage = NoPage
    /\ ires = NoResult
    /\ indexes \in {<<>>} \cup {<<ix>> : ix \in CrossIndexes}
    /\ idxno = 0
    /\ indexLog = <<>>
    /\ BitmapIdle /\ LockIdle /\ LookupIdle
    /\ pgcheck_debug \in BOOLEAN
    /\ printed = <<>>

NextDebug ==
    \/ CheckTableOpen
    \/ CheckTableBlock
    \/ CheckTablePrintNull
    \/ CheckTableIndexes
    \/ CheckTableIndex
    \/ CheckTableIndexesDone
    \/ CheckTableReturn

SpecDebug == InitDebug /\ [][NextDebug]_vars

\* pg_check_table(rel, false, cross_check): the heap pass alone, no index
\* is visited
InitScan ==
    /\ pc = "check_table"
    /\ header = NoHeader
    /\ hres = NoResult
    /\ page = NoPage
    /\ desc = <<INT4>>
    /\ item = 0
    /\ tres = <<>>
    /\ rel \in CrossHeaps
    /\ blkno = 0
    /\ nerrs = 0
    /\ call \in {c \in CrossCalls : ~c.checkIndexes}
    /\ blockTo = 0
    /\ blockLog = <<>>
    /\ IndexIdle /\ BitmapIdle /\ LockIdle /\ DebugIdle /\ LookupIdle

SpecScan == InitScan /\ [][NextTable]_vars

(***************************************************************************)
(* pg_check_table_pages(rel, blkfrom, blkto) and                           *)
(* pg_check_index_pages(rel, blkfrom, blkto), with check_index             *)
(***************************************************************************)
\* an int64 argument x is kept as its digits <<x \div WordBase, x % WordBase>>
WordBase == 65536

\* MaxBlockNumber is 0xFFFFFFFE
MaxBlockNumber == <<WordBase - 1, WordBase - 2>>

\* a < b on int64 values
Int64Less(a, b) == a[1] < b[1] \/ (a[1] = b[1] /\ a[2] < b[2])

\* blk < 0 || blk > MaxBlockNumber
InvalidBlockArg(a) == Int64Less(a, <<0, 0>>) \/ Int64Less(MaxBlockNumber, a)

\* the cast (BlockNumber) blk of a value that passed the test above
BlockNumberOf(a) == a[1] * WordBase + a[2]

\* the arguments tried: -1, the blocks up to one past the largest relation,
\* MaxBlockNumber + 1 and 2^32
PageArgs ==
    {<<-1, WordBase - 1>>, <<WordBase - 1, WordBase - 1>>, <<WordBase, 0>>}
    \cup {<<0, k>> : k \in 0..(MaxBlocks + 1)}

PagesCalls ==
    [fn : {"pg_check_table_pages", "pg_check_index_pages"},
     blkfrom : PageArgs, blkto : PageArgs,
     checkIndexes : {FALSE}, crossCheckIndexes : {FALSE},
     blockFrom : {0}, blockTo : {0}, blockRangeGiven : {FALSE}]

InitPages ==
    /\ call \in PagesCalls
    /\ pc = call.fn
    /\ header = NoHeader
    /\ hres = NoResult
    /\ page = NoPage
    /\ desc = <<INT4>>
    /\ item = 0
    /\ tres = <<>>
    /\ IF call.fn = "pg_check_table_pages"
       THEN rel \in CrossHeaps /\ indexes = <<>>
       ELSE rel = <<>> /\ indexes \in {<<ix>> : ix \in CrossIndexes}
    /\ blkno = 0
    /\ nerrs = 0
    /\ blockTo = 0
    /\ blockLog = <<>>
    /\ ipage = NoPage
    /\ ires = NoResult
    /\ idxno = 0
    /\ indexLog = <<>>
    /\ BitmapIdle /\ LockIdle /\ LookupIdle
    /\ pgcheck_debug \in BOOLEAN
    /\ printed = <<>>

\* pg_check_table_pages: the two tests of the arguments, then
\* check_table(relid, false, false, blkfrom, blkto, true)
pg_check_table_pages ==
    /\ pc = "pg_check_table_pages"
    /\ IF InvalidBlockArg(call.blkfrom) \/ InvalidBlockArg(call.blkto)
       THEN pc' = "error" /\ UNCHANGED call
       ELSE /\ pc' = "check_table"
            /\ call' = [call EXCEPT !.blockFrom = BlockNumberOf(call.blkfrom),
                                    !.blockTo = BlockNumberOf(call.blkto),
                                    !.blockRangeGiven = TRUE]
    /\ UNCHANGED <<headerVars, tupleVars, rel, blkno, nerrs, blockTo, blockLog,
                   indexVars, bitmapVars, lockVars, debugVars, lookupVars>>

\* pg_check_index_pages: the two tests of the arguments, then
\* check_index(relid, blkfrom, blkto, true)
pg_check_index_pages ==
    /\ pc = "pg_check_index_pages"
    /\ IF InvalidBlockArg(call.blkfrom) \/ InvalidBlockArg(call.blkto)
       THEN pc' = "error" /\ UNCHANGED call
       ELSE /\ pc' = "check_index"
            /\ call' = [call EXCEPT !.blockFrom = BlockNumberOf(call.blkfrom),
                                    !.blockTo = BlockNumberOf(call.blkto),
                                    !.blockRangeGiven = TRUE]
    /\ UNCHANGED <<headerVars, tupleVars, rel, blkno, nerrs, blockTo, blockLog,
                   indexVars, bitmapVars, lockVars, debugVars, lookupVars>>

\* check_index up to the loop: relation_open, the test of the access method
\* and the range
CheckIndexOpen ==
    /\ pc = "check_index"
    /\ locks' = Append(locks, LockEvent("open", "index", AccessShareLock))
    /\ IF indexes[1].relam # BTREE_AM_OID
       THEN pc' = "error" /\ UNCHANGED <<blkno, blockTo>>
       ELSE /\ pc' = "index_blocks"
            /\ blkno' = IF call.blockRangeGiven THEN call.blockFrom ELSE 0
            /\ blockTo' = IF call.blockRangeGiven THEN call.blockTo
                          ELSE Len(indexes[1].pages)
    /\ UNCHANGED <<headerVars, tupleVars, rel, nerrs, call, blockLog, indexVars,
                   bitmapVars, debugVars, lookupVars>>

\* one pass of the block loop of check_index: check_index_page, and past
\* block 0 check_index_tuples
CheckIndexBlock ==
    /\ pc = "index_blocks"
    /\ MoreBlocks(blkno, blockTo)
    /\ blkno < Len(indexes[1].pages)
    /\ \E g \in UninitLen :
       \E chk \in {btree_check_page(indexes[1].pages[blkno + 1], indexes[1].desc, blkno, g)} :
         /\ nerrs' = nerrs + IndexPageNerrs(chk)
         /\ blockLog' = Append(blockLog,
                [blk |-> blkno, hdr |-> chk.hdr, tuples |-> chk.tuples,
                 examined |-> {k - 1 : k \in 1..Len(chk.tuples)}])
    /\ blkno' = blkno + 1
    /\ UNCHANGED <<pc, headerVars, tupleVars, rel, call, blockTo, indexVars,
                   bitmapVars, lockVars, debugVars, lookupVars>>

\* ReadBufferExtended on a block past the end of the index raises an error
CheckIndexReadPastEnd ==
    /\ pc = "index_blocks"
    /\ MoreBlocks(blkno, blockTo)
    /\ blkno >= Len(indexes[1].pages)
    /\ pc' = "error"
    /\ UNCHANGED <<headerVars, tupleVars, rel, blkno, nerrs, call, blockTo, blockLog,
                   indexVars, bitmapVars, lockVars, debugVars, lookupVars>>

\* the end of check_index
CheckIndexReturn ==
    /\ pc = "index_blocks"
    /\ ~MoreBlocks(blkno, blockTo)
    /\ pc' = "check_index_done"
    /\ locks' = Append(locks, LockEvent("close", "index", AccessShareLock))
    /\ UNCHANGED <<headerVars, tupleVars, rel, blkno, nerrs, call, blockTo, blockLog,
                   indexVars, bitmapVars, debugVars, lookupVars>>

NextPages ==
    \/ pg_check_table_pages
    \/ pg_check_index_pages
    \/ CheckTableOpen
    \/ CheckTableBlock
    \/ CheckTableReadPastEnd
    \/ CheckTablePrintNull
    \/ CheckTableReturn
    \/ CheckIndexOpen
    \/ CheckIndexBlock
    \/ CheckIndexReadPastEnd
    \/ CheckIndexReturn

SpecPages == InitPages /\ [][NextPages]_vars

(***************************************************************************)
(* index.c: lookup_check_method(oid, crosscheck)                           *)
(***************************************************************************)
InvalidOid == 0

\* methods[], the last entry being the InvalidOid sentinel
methods ==
    <<[oid |-> BTREE_AM_OID, check_page |-> "btree_check_page", crosscheck |-> TRUE],
      [oid |-> InvalidOid, check_page |-> "NULL", crosscheck |-> FALSE]>>

\* the access methods looked up lie within OidSpread of the b-tree's
OidSpread == 10

LookupOids ==
    {InvalidOid} \cup (BTREE_AM_OID - OidSpread)..(BTREE_AM_OID + OidSpread)

\* crosscheck is a null pointer or points to a bool of the caller
CrosscheckArgs == {"null", "true", "false"}

InitLookup ==
    /\ pc = "lookup"
    /\ header = NoHeader
    /\ hres = NoResult
    /\ page = NoPage
    /\ desc = <<INT4>>
    /\ item = 0
    /\ tres = <<>>
    /\ rel = <<>>
    /\ blkno = 0
    /\ nerrs = 0
    /\ call = NoCall
    /\ blockTo = 0
    /\ blockLog = <<>>
    /\ IndexIdle /\ BitmapIdle /\ LockIdle /\ DebugIdle
    /\ lookup \in [oid : LookupOids, crosscheck : CrosscheckArgs, i : {0},
                    result : {"unset"}]

\* *crosscheck = false; i = 0.  The store through a null pointer is
\* undefined: the call ends there or goes on.
LookupEnter ==
    /\ pc = "lookup"
    /\ IF lookup.crosscheck = "null"
       THEN /\ pc' \in {"crashed", "lookup_loop"}
            /\ lookup' = [lookup EXCEPT !.i = 0]
       ELSE /\ pc' = "lookup_loop"
            /\ lookup' = [lookup EXCEPT !.crosscheck = "false", !.i = 0]
    /\ UNCHANGED <<headerVars, tupleVars, tableVars, nerrs, indexVars, bitmapVars,
                   lockVars, debugVars>>

\* one pass of while (methods[i].oid != InvalidOid), or the return after
\* it; the body does not change i
LookupLoop ==
    /\ pc = "lookup_loop"
    /\ IF methods[lookup.i + 1].oid # InvalidOid
       THEN IF methods[lookup.i + 1].oid = lookup.oid
            THEN /\ pc' = "lookup_done"
                 /\ lookup' = [lookup EXCEPT
                        !.result = methods[lookup.i + 1].check_page,
                        !.crosscheck =
                            IF lookup.crosscheck = "null" THEN "null"
                            ELSE IF methods[lookup.i + 1].crosscheck THEN "true"
                            ELSE "false"]
            ELSE UNCHANGED <<pc, lookup>>
       ELSE /\ pc' = "lookup_done"
            /\ lookup' = [lookup EXCEPT !.result = "generic_check_page"]
    /\ UNCHANGED <<headerVars, tupleVars, tableVars, nerrs, indexVars, bitmapVars,
                   lockVars, debugVars>>

NextLookup == LookupEnter \/ LookupLoop

\* the loop is run for as long as it can be
SpecLookup == InitLookup /\ [][NextLookup]_vars /\ WF_vars(NextLookup)

(***************************************************************************)
(* item-bitmap.c: bitmap_set_item, bitmap_get_item and bitmap_reset called *)
(* on a bitmap whose pages were added in order                             *)
(***************************************************************************)
\* the bitmap after bitmap_add_page for the pages 0 .. n-1 holding
\* counts[1] .. counts[n] items
RECURSIVE AddPages(_, _)
AddPages(counts, n) ==
    IF n = 0 THEN bitmap_init(Len(counts))
    ELSE bitmap_add_page(AddPages(counts, n - 1), n - 1, counts[n])

\* the numbers of items of the pages of the bitmaps called on
BitmapLayouts == {<<2>>, <<1, 1>>, <<1, 2>>}

\* the greatest item asked for
MaxBitItem == 2

\* the arguments of a call: page is at most npages, item at least -1, and
\* the index GetBitmapIndex computes from them is not negative
BitmapArgs ==
    {a \in (0..bitmap_heap.npages) \X ((-1)..MaxBitItem) :
        GetBitmapIndex(bitmap_heap, a[1], a[2]) >= 0}

\* the number of items added for page pgno
ItemsOfPage(bm, pgno) ==
    PagesAt(bm, pgno) - (IF pgno = 0 THEN 0 ELSE PagesAt(bm, pgno - 1))

\* (pgno, itm) is an item of a page of the bitmap
IsItemOfPage(bm, pgno, itm) ==
    /\ pgno >= 0 /\ pgno < bm.npages
    /\ itm >= 0 /\ itm < ItemsOfPage(bm, pgno)

InitBitmap ==
    /\ pc = "bitmap"
    /\ header = NoHeader
    /\ hres = NoResult
    /\ page = NoPage
    /\ desc = <<INT4>>
    /\ item = 0
    /\ tres = <<>>
    /\ rel = <<>>
    /\ blkno = 0
    /\ nerrs = 0
    /\ call = NoCall
    /\ blockTo = 0
    /\ blockLog = <<>>
    /\ IndexIdle /\ LockIdle /\ DebugIdle /\ LookupIdle
    /\ bitmap_heap \in {AddPages(c, Len(c)) : c \in BitmapLayouts}
    /\ bitmap_idx = NullBitmap
    /\ bitop = NoBitOp

\* lastSet: the items of the pages whose last bitmap_set_item since the
\* last reset had state = true
BitmapSetItem ==
    /\ pc = "bitmap"
    /\ \E a \in BitmapArgs, state \in BOOLEAN :
         \E r \in {bitmap_set_item(bitmap_heap, a[1], a[2], state)} :
           /\ bitmap_heap' = r.bm
           /\ bitop' = [op |-> "set", pgno |-> a[1], itm |-> a[2], state |-> state,
                        ok |-> r.ok,
                        lastSet |->
                            IF ~IsItemOfPage(bitmap_heap, a[1], a[2]) THEN bitop.lastSet
                            ELSE IF state THEN bitop.lastSet \cup {a}
                            ELSE bitop.lastSet \ {a}]
    /\ UNCHANGED <<pc, headerVars, tupleVars, tableVars, nerrs, indexVars,
                   bitmap_idx, lockVars, debugVars, lookupVars>>

BitmapGetItem ==
    /\ pc = "bitmap"
    /\ \E a \in BitmapArgs :
         bitop' = [bitop EXCEPT !.op = "get", !.pgno = a[1], !.itm = a[2],
                                !.state = FALSE,
                                !.ok = bitmap_get_item(bitmap_heap, a[1], a[2])]
    /\ UNCHANGED <<pc, headerVars, tupleVars, tableVars, nerrs, indexVars,
                   bitmap_heap, bitmap_idx, lockVars, debugVars, lookupVars>>

BitmapReset ==
    /\ pc = "bitmap"
    /\ bitmap_heap' = bitmap_reset(bitmap_heap)
    /\ bitop' = [NoBitOp EXCEPT !.op = "reset"]
    /\ UNCHANGED <<pc, headerVars, tupleVars, tableVars, nerrs, indexVars,
                   bitmap_idx, lockVars, debugVars, lookupVars>>

NextBitmap == BitmapSetItem \/ BitmapGetItem \/ BitmapReset

SpecBitmap == InitBitmap /\ [][NextBitmap]_vars

(***************************************************************************)
(* Claims about check_page_header, checked under SpecHeader                *)
(***************************************************************************)
Indicator(b) == IF b THEN 1 ELSE 0

HeaderChecked == pc = "header_done"

InRange(p) == SizeOfPageHeaderData <= p /\ p <= BLCKSZ

\* the number of the seven header conditions that the page violates
ViolatedConditions(h) ==
      Indicator(PageGetPageSize(h) # BLCKSZ)
    + Indicator(~InRange(h.pd_lower))
    + Indicator(~InRange(h.pd_upper))
    + Indicator(~InRange(h.pd_special))
    + Indicator(~(h.pd_lower <= h.pd_upper))
    + Indicator(~(h.pd_upper <= h.pd_special))
    + Indicator(\E k \in 3..15 : (h.pd_flags \div (2 ^ k)) % 2 = 1)

\* C1: check_page_header on a page with pd_upper = 0 stops as a new page and
\* returns 0, whatever the other header fields hold (the all-zero page too).
C1_NewPageReturnsZero ==
    (HeaderChecked /\ header.pd_upper = 0)
        => (hres.stop = "new" /\ HeaderNerrs(hres) = 0)

\* C2: on a page of layout version 4 with pd_upper # 0, check_page_header
\* returns the number of violated conditions among the seven (page size, the
\* three pointer ranges, lower <= upper, upper <= special, valid flags); no
\* violation stops the later checks.
C2_CountsEveryViolation ==
    (HeaderChecked /\ PageGetPageLayoutVersion(header) = 4 /\ header.pd_upper # 0)
        => (hres.stop = "none" /\ HeaderNerrs(hres) = ViolatedConditions(header))

C2_Witness ==
    /\ HeaderChecked
    /\ PageGetPageLayoutVersion(header) = 4
    /\ header.pd_upper # 0
    /\ HeaderNerrs(hres) = 7

\* C3 (as stated): on a page of layout version 0..3 check_page_header stops
\* after the version check and the obsolete version adds nothing to the
\* returned count.
C3_ObsoleteNotCounted ==
    (HeaderChecked /\ PageGetPageLayoutVersion(header) \in 0..3)
        => (hres.stop = "obsolete"
            /\ HeaderNerrs(hres) = Indicator(PageGetPageSize(header) # BLCKSZ))

\* C3 (amended): on a page of layout version 0..3 check_page_header stops
\* after the version check (no pointer range, ordering or flag check is
\* counted) and the obsolete version adds exactly one to the returned count.
C3_ObsoleteCountedOnce ==
    (HeaderChecked /\ PageGetPageLayoutVersion(header) \in 0..3)
        => (/\ hres.stop = "obsolete"
            /\ \A k \in 1..Len(hres.errs) : hres.errs[k] \in {"size", "obsolete"}
            /\ HeaderNerrs(hres) = Indicator(PageGetPageSize(header) # BLCKSZ) + 1)

C3_Witness ==
    /\ HeaderChecked
    /\ PageGetPageLayoutVersion(header) = 3
    /\ PageGetPageSize(header) = BLCKSZ
    /\ header.pd_lower > header.pd_upper
    /\ header.pd_upper = 20
    /\ header.pd_flags = 8
    /\ HeaderNerrs(hres) = 1

(***************************************************************************)
(* Claims about the block loop of check_table, checked under SpecTable     *)
(***************************************************************************)

\* C4: tuple-level checks run on a block only when the header check found
\* the page neither new (pd_upper = 0) nor of an obsolete layout version:
\* no line pointer of such a page is examined.
C4_NoTupleCheckOnNewOrObsolete ==
    \A k \in 1..Len(blockLog) :
        blockLog[k].hdr.stop \in {"new", "obsolete"}
            => (blockLog[k].examined = {} /\ blockLog[k].tuples = <<>>)

\* C5: when check_page_header counts a violation for a block, check_table
\* examines no line pointer of that block, and every later block of the
\* range is still read and checked.
C5_LaterBlocksStillChecked ==
    pc = "check_table_done" =>
        LET from == IF call.blockRangeGiven THEN call.blockFrom ELSE 0
        IN  /\ Len(blockLog) = Max(blockTo - from, 0)
            /\ \A k \in 1..Len(blockLog) : blockLog[k].blk = from + k - 1

C5_BadHeaderSkipsTupleWalk ==
    /\ \A k \in 1..Len(blockLog) :
           HeaderNerrs(blockLog[k].hdr) >= 1 => blockLog[k].examined = {}
    /\ C5_LaterBlocksStillChecked

(***************************************************************************)
(* Claims about the line pointer checks, checked under SpecOverlap         *)
(***************************************************************************)
TuplesChecked == pc = "tuples_done"

StorageBearing(lp) ==
    lp.lp_flags = LP_NORMAL \/ (lp.lp_flags = LP_DEAD /\ lp.lp_len > 0)

\* [off, off+len) of the two line pointers have a byte in common
ShareByte(l1, l2) ==
    \E o \in (l1.lp_off)..(l1.lp_off + l1.lp_len - 1) :
        l2.lp_off <= o /\ o < l2.lp_off + l2.lp_len

\* C6: for every pair of storage-bearing items of a heap page an overlap
\* error is counted for the pair exactly when their byte intervals
\* [off, off+len) share a byte (equal intervals included); disjoint and
\* adjacent intervals are not reported.
C6_OverlapIffShareByte ==
    TuplesChecked =>
        \A i \in 0..(Len(page.linp) - 1) : \A j \in 0..(i - 1) :
            (StorageBearing(LinpAt(page, i)) /\ StorageBearing(LinpAt(page, j)))
                => ((j \in tres[i + 1].overlaps)
                        <=> ShareByte(LinpAt(page, i), LinpAt(page, j)))

(***************************************************************************)
(* Claims about the attribute walk, checked under SpecWalk                 *)
(***************************************************************************)
WalkLp == LinpAt(page, 0)
WalkTuple == TupleAt(page, WalkLp.lp_off)
WalkEnd == WalkLp.lp_off + WalkLp.lp_len
WalkDone == TuplesChecked /\ Len(tres) = 1 /\ tres[1].walk.walked
NattsOnDisk == HeapTupleHeaderGetNatts(WalkTuple)
Counted(tag, errs) == Cardinality({k \in 1..Len(errs) : errs[k] = tag})

\* C7: with more attributes on disk than in the descriptor the walk returns
\* exactly 1 and reaches no attribute; with at most as many, the difference
\* is not counted and the loop runs over the first natts_on_disk attributes
\* (all of them, unless a break at an overflowing attribute ends it early).
C7_AttributeCount ==
    WalkDone =>
        LET w == tres[1].walk
        IN  IF NattsOnDisk > Len(desc)
            THEN w.errs = <<"natts">> /\ w.seen = {} /\ w.log = <<>>
            ELSE /\ Counted("natts", w.errs) = 0
                 /\ w.seen \subseteq 0..(NattsOnDisk - 1)
                 /\ ~w.stopped => w.seen = 0..(NattsOnDisk - 1)
                 /\ w.stopped => \E k \in 0..(NattsOnDisk - 1) : w.seen = 0..k

C7_Witness ==
    /\ WalkDone
    /\ NattsOnDisk = 1
    /\ Len(desc) = 2
    /\ tres[1].walk.seen = {0}
    /\ tres[1].walk.log # <<>>
    /\ tres[1].errs = <<>>

\* C8: for a walked heap tuple the 'HEAP_HASNULL but no NULLs' error is
\* counted, once, exactly when HEAP_HASNULL is set and none of the tuple's
\* natts_on_disk attributes is marked NULL in t_bits.
C8_HasNullIffNoNullBit ==
    (WalkDone /\ NattsOnDisk <= Len(desc)) =>
        LET noNull == \A j \in 0..(NattsOnDisk - 1) : ~att_isnull(j, WalkTuple)
        IN  Counted("hasnull", tres[1].walk.errs)
                = Indicator(HeapHasNull(WalkTuple) /\ noNull)

\* C9: for a C string attribute at cursor off the length taken is
\* strnlen(page + off, remaining) + 1 with remaining = lp.off + lp.len - off,
\* and when no NUL lies in the remaining bytes the length is remaining + 1,
\* the overflow is counted and the walk of the tuple stops.
C9_CStringLength ==
    WalkDone =>
        \A k \in 1..Len(tres[1].walk.log) :
            LET e == tres[1].walk.log[k]
                remaining == WalkEnd - e.off
                noNul == \A o \in (e.off)..(WalkEnd - 1) :
                             TupleByte(WalkTuple, WalkLp, o) # 0
            IN  (e.kind = "cstring" /\ remaining >= 0) =>
                    /\ e.len = StrnlenAt(WalkTuple, WalkLp, e.off, remaining).len + 1
                    /\ noNul => (/\ e.len = remaining + 1
                                 /\ tres[1].walk.stopped
                                 /\ Counted("overflow", tres[1].walk.errs) = 1)

\* C10: the attribute walk of a heap item reads no page byte at an offset
\* >= lp.off + lp.len, and so none outside the BLCKSZ page buffer.
C10_ReadsInsideItem ==
    WalkDone => (tres[1].walk.maxread < WalkEnd /\ tres[1].walk.maxread < BLCKSZ)

\* 1 GiB, the limit the claim and the warning text name
OneGiB == 1024 * 1024 * 1024

\* the attributes of the walk whose value is a compressed varlena, and those
\* among them whose stored raw size is outside [0, 1 GiB]
CompressedLogged ==
    {k \in 1..Len(tres[1].walk.log) :
        /\ tres[1].walk.log[k].kind = "varlena"
        /\ VARATT_IS_COMPRESSED(TupleByte(WalkTuple, WalkLp, tres[1].walk.log[k].off))}

RawSizeOf(k) ==
    LET o == tres[1].walk.log[k].off
        B(i) == TupleByte(WalkTuple, WalkLp, o + i)
    IN  VARRAWSIZE_4B_C(B(4), B(5), B(6), B(7))

\* C11: for a compressed varlena attribute the walker counts an invalid-length
\* error iff the stored raw size is outside [0, 1 GiB]; a raw size of at most
\* 1 GiB is accepted, and the error does not stop the walk.
C11_RawSizeWithinOneGiB ==
    WalkDone =>
        Counted("rawsize", tres[1].walk.errs) =
            Cardinality({k \in CompressedLogged :
                            RawSizeOf(k) < 0 \/ RawSizeOf(k) > OneGiB})

(***************************************************************************)
(* Claims about btree_check_page, checked under SpecIndex                  *)
(***************************************************************************)
IndexPageChecked == pc = "index_page_done" /\ blkno # BTREE_METAPAGE

LeafFlagSet == ipage.opaque.btpo_flags % 2 = 1
DeletedFlagSet == (ipage.opaque.btpo_flags \div 4) % 2 = 1

\* C12: on a non-meta b-tree page not marked DELETED, btree_check_page counts
\* exactly one level error iff (LEAF set and level != 0) or (LEAF clear and
\* level == 0); on a page marked DELETED the level is never checked.
C12_LevelCheck ==
    IndexPageChecked =>
        Counted("level", ires.errs) =
            Indicator(/\ ~DeletedFlagSet
                      /\ \/ LeafFlagSet /\ ipage.opaque.level # 0
                         \/ ~LeafFlagSet /\ ipage.opaque.level = 0)

C12_Witness ==
    /\ IndexPageChecked
    /\ LeafFlagSet /\ ~DeletedFlagSet /\ ipage.opaque.level = 1
    /\ Counted("level", ires.errs) = 1

\* the data length of the index tuple of line pointer i, from its t_info
DataLengthOf(i) ==
    LET info == IndexTupleAt(ipage, LinpAt(ipage, i).lp_off).t_info
    IN  (info % 8192) - (IF info >= 32768 THEN 16 ELSE 8)

MinusInfinityItem(i) ==
    /\ ~LeafFlagSet
    /\ i + 1 = (IF ipage.opaque.btpo_next = 0 THEN 1 ELSE 2)
    /\ DataLengthOf(i) = 0

NormalIndexItems ==
    {i \in 0..(Len(ires.tuples) - 1) : LinpAt(ipage, i).lp_flags = LP_NORMAL}

\* C13: in the b-tree attribute walker an item is skipped with 0 errors (no
\* attribute walked, no null-flag or end-of-tuple check) iff the page is
\* non-leaf, the item's 1-based offset is P_FIRSTDATAKEY and its data length
\* is 0; every other NORMAL item gets the full walk.
C13_MinusInfinitySkipped ==
    IndexPageChecked =>
        \A i \in NormalIndexItems :
            LET w == ires.tuples[i + 1].walk
            IN  /\ w.walked
                /\ w.skipped <=> MinusInfinityItem(i)
                /\ w.skipped => w.errs = <<>> /\ w.seen = {} /\ ~w.after
                /\ ~w.skipped => 0 \in w.seen /\ w.after

C13_Witness ==
    /\ IndexPageChecked
    /\ ipage.opaque.btpo_next # 0
    /\ Cardinality(NormalIndexItems) = 2
    /\ ires.tuples[2].walk.skipped
    /\ ~ires.tuples[1].walk.skipped

(***************************************************************************)
(* Claims about the item bitmap, checked under SpecScan and SpecCross      *)
(***************************************************************************)
\* the heap bitmap exists: a full scan with a cross-check was asked for
HeapBitmapBuilt == ~bitmap_heap.null

\* the line pointers of the heap pages before page k (k counted from 0)
RECURSIVE LinpBefore(_)
LinpBefore(k) == IF k = 0 THEN 0 ELSE LinpBefore(k - 1) + Len(rel[k].linp)

\* the bit of item i (from 0) of heap page k (from 0)
ItemPosition(k, i) == LinpBefore(k) + i

\* a NORMAL item, or a DEAD one with storage
HasStorage(lp) ==
    IF lp.lp_flags = LP_DEAD THEN lp.lp_len > 0 ELSE lp.lp_flags = LP_NORMAL

\* item i of the heap page pg is in the add-set: not UNUSED, not the target
\* of a REDIRECT item of the page, not a stored heap-only tuple
InAddSet(pg, i) ==
    LET lp == LinpAt(pg, i)
    IN  /\ lp.lp_flags # LP_UNUSED
        /\ ~\E j \in 0..(Len(pg.linp) - 1) :
               /\ LinpAt(pg, j).lp_flags = LP_REDIRECT
               /\ LinpAt(pg, j).lp_off - 1 = i
        /\ HasStorage(lp) => ~HeapTupleHeaderIsHeapOnly(TupleAt(pg, lp.lp_off))

\* the bits of the add-sets of the heap pages 0 .. n-1
AddSetBits(n) ==
    {ItemPosition(k, i) : <<k, i>> \in
        {<<k, i>> \in (0..(n - 1)) \X (0..(MaxItems + 4)) :
            i < Len(rel[k + 1].linp) /\ InAddSet(rel[k + 1], i)}}

\* C14: after heap population of the bitmap for a page, bit (page, item) is
\* set iff the item is not UNUSED, is not the target (lp_off - 1) of a
\* REDIRECT item of that page and is not a NORMAL or DEAD-with-storage item
\* whose tuple is heap-only; the bits of the other pages are unchanged.
C14_HeapBitsAreAddSet ==
    HeapBitmapBuilt /\ pc = "blocks" => bitmap_heap.data = AddSetBits(blkno)

\* the passes of the loop over the indexes that had a bitmap to fill from a
\* b-tree
CrossChecked ==
    {n \in 1..Len(indexLog) :
        /\ ~indexLog[n].heap.null
        /\ indexes[indexLog[n].idx + 1].relam = BTREE_AM_OID}

\* the leaf page of the index of pass n
LeafOf(n) == indexes[indexLog[n].idx + 1].pages[2]

\* the t_tid of item k (from 1) of an index page
TidOf(pg, k) == IndexTupleAt(pg, pg.linp[k].lp_off).t_tid

\* the tid names a line pointer of the heap
TidInHeap(tid) ==
    /\ tid.blk < Len(rel)
    /\ tid.posid >= 1
    /\ tid.posid <= Len(rel[tid.blk + 1].linp)

TidPosition(tid) == ItemPosition(tid.blk, tid.posid - 1)

\* the items of a leaf page that point to the heap: NORMAL, and not the
\* first item (the high key) unless the page is the rightmost
PointerItems(pg) ==
    {k \in 1..Len(pg.linp) :
        /\ pg.linp[k].lp_flags = LP_NORMAL
        /\ k = 1 => pg.opaque.btpo_next = P_NONE}

\* those of them whose tid an earlier one already has
RepeatedItems(pg) ==
    {k \in PointerItems(pg) :
        \E j \in PointerItems(pg) : j < k /\ TidOf(pg, j) = TidOf(pg, k)}

\* C15: index population from a b-tree LEAF page sets the bit of
\* (t_tid.block, t_tid.offset - 1) for every NORMAL item except the first
\* item of a page that is not the rightmost, and for no other item; each
\* item whose bit is already set adds exactly one error and leaves the bit
\* set.
C15_IndexBitsArePointerItems ==
    \A n \in CrossChecked :
        LET pg == LeafOf(n)
            r  == bitmap_add_index_items(indexLog[n].start, pg)
        IN  (\A k \in 1..Len(pg.linp) : TidInHeap(TidOf(pg, k))) =>
                /\ indexLog[n].after = r.bm
                /\ r.bm.data = {TidPosition(TidOf(pg, k)) : k \in PointerItems(pg)}
                /\ r.nerrs = Cardinality(RepeatedItems(pg))

\* the passes that compared the two bitmaps
Compared == {n \in 1..Len(indexLog) : ~indexLog[n].heap.null}

\* the bit positions at which two bitmaps differ
Differing(a, b) == (a.data \ b.data) \cup (b.data \ a.data)

\* C16: for two bitmaps a and b with the same npages, bitmap_compare(a, b)
\* is the number of bit positions at which a and b differ; hence
\* bitmap_compare(a, a) = 0 and bitmap_compare(a, b) = bitmap_compare(b, a),
\* and neither bitmap is modified.
C16_CompareCountsDifferences ==
    \A n \in Compared :
        LET a == indexLog[n].heap
            b == indexLog[n].after
        IN  a.npages = b.npages =>
                /\ indexLog[n].ndiffs = bitmap_compare(a, b)
                /\ bitmap_compare(a, b) = Cardinality(Differing(a, b))
                /\ bitmap_compare(a, a) = 0
                /\ bitmap_compare(b, b) = 0
                /\ bitmap_compare(b, a) = bitmap_compare(a, b)
                /\ bitmap_heap.data = a.data
                /\ pc = "indexes" => bitmap_idx = b

\* the block loop of a full scan is over and the heap bitmap not yet freed
ScanDone == HeapBitmapBuilt /\ pc = "blocks" /\ blkno >= blockTo

RECURSIVE SumOfPages(_)
SumOfPages(ps) == IF ps = <<>> THEN 0 ELSE Head(ps) + SumOfPages(Tail(ps))

\* every line pointer of the heap is NORMAL and no tuple is heap-only
AllPlain ==
    \A k \in 1..Len(rel) : \A j \in 1..Len(rel[k].linp) :
        /\ rel[k].linp[j].lp_flags = LP_NORMAL
        /\ ~HeapTupleHeaderIsHeapOnly(TupleAt(rel[k], rel[k].linp[j].lp_off))

\* C17 as stated: after a full heap scan the number of bits set in the heap
\* bitmap equals the sum over all pages i of pages[i].
C17_CountIsSumOfPages ==
    ScanDone => bitmap_count(bitmap_heap) = SumOfPages(bitmap_heap.pages)

\* C17 amended: after a full heap scan of at least one page, pages[i] is the
\* running sum of the line pointers of the pages 0 .. i, and the number of
\* bits set in the heap bitmap is at most its last entry pages[npages-1],
\* and equal to it when every line pointer is NORMAL and no tuple is
\* heap-only.
C17_CountWithinRunningSum ==
    ScanDone /\ bitmap_heap.npages >= 1 =>
        /\ \A k \in 1..bitmap_heap.npages : bitmap_heap.pages[k] = LinpBefore(k)
        /\ bitmap_count(bitmap_heap) <= PagesAt(bitmap_heap, bitmap_heap.npages - 1)
        /\ AllPlain =>
               bitmap_count(bitmap_heap) = PagesAt(bitmap_heap, bitmap_heap.npages - 1)

C17_Witness ==
    /\ ScanDone
    /\ bitmap_heap.npages >= 2
    /\ bitmap_heap.pages[1] >= 1
    /\ bitmap_heap.pages[2] > bitmap_heap.pages[1]
    /\ AllPlain
    /\ bitmap_count(bitmap_heap) = bitmap_heap.pages[2]

\* the heap-live TIDs: the items of the add-sets of the heap pages
LiveTids ==
    {[blk |-> k, posid |-> i + 1] : <<k, i>> \in
        {<<k, i>> \in (0..(Len(rel) - 1)) \X (0..(MaxItems + 4)) :
            i < Len(rel[k + 1].linp) /\ InAddSet(rel[k + 1], i)}}

\* the TIDs the leaf page pg has an entry for
EntryTids(pg) == {TidOf(pg, k) : k \in 1..Len(pg.linp)}

\* the leaf page is the rightmost, its items are NORMAL and no two of them
\* have the same TID
SoundLeaf(pg) ==
    /\ pg.opaque.btpo_next = P_NONE
    /\ \A k \in 1..Len(pg.linp) : pg.linp[k].lp_flags = LP_NORMAL
    /\ Cardinality(EntryTids(pg)) = Len(pg.linp)

\* what the block loop added to the result
RECURSIVE HeapPassErrs(_)
HeapPassErrs(log) ==
    IF log = <<>> THEN 0
    ELSE HeaderNerrs(Head(log).hdr) + SumErrs(Head(log).tuples) + HeapPassErrs(Tail(log))

\* C18: after the heap pass and one index pass over an uncorrupted relation
\* in which every heap-live TID has exactly one leaf entry the comparison
\* gives 0 and nothing is added to the result of check_table; if exactly one
\* heap-live tuple has no index entry the comparison gives exactly 1, which
\* is added to the result.
C18_CrossCheckEndToEnd ==
    \A n \in CrossChecked :
        LET pg == LeafOf(n)
        IN  Len(indexLog) = 1 /\ SoundLeaf(pg) /\ EntryTids(pg) \subseteq LiveTids =>
                /\ EntryTids(pg) = LiveTids =>
                       indexLog[n].ndiffs = 0 /\ nerrs = HeapPassErrs(blockLog)
                /\ Cardinality(LiveTids \ EntryTids(pg)) = 1 =>
                       indexLog[n].ndiffs = 1 /\ nerrs = HeapPassErrs(blockLog) + 1

ClosedAsOpened(k) ==
    \E j \in (k + 1)..Len(locks) :
        /\ locks[j].op = "close"
        /\ locks[j].rel = locks[k].rel
        /\ locks[j].mode = locks[k].mode
        /\ \A i \in (k + 1)..(j - 1) : locks[i].rel # locks[k].rel

\* C20: on every normally returning path of check_table and check_index_oid
\* the relation is closed with the lock mode it was opened with
\* (ShareRowExclusiveLock when cross-checking or a bitmap was passed,
\* AccessShareLock otherwise), the early return of check_index_oid for an
\* index that is not a b-tree included.
C20_ClosedWithOpeningMode ==
    pc = "check_table_done" =>
        \A k \in 1..Len(locks) :
            locks[k].op = "open" =>
                /\ ClosedAsOpened(k)
                /\ locks[k].mode =
                       IF locks[k].rel = "table" THEN TableLockMode(call)
                       ELSE IF HeapBitmapBuilt THEN ShareRowExclusiveLock
                       ELSE AccessShareLock

(***************************************************************************)
(* Claims about the order of the visits, checked under SpecCross           *)
(***************************************************************************)
\* the sequence <<0, 1, ..., n-1>>
Ascending(n) == [k \in 1..n |-> k - 1]

\* C21: within one check_table call the blocks of a relation are visited in
\* strictly ascending block number, each exactly once, and the line pointers
\* of a block in ascending offset; with a cross-check every heap block has
\* been checked and added to the heap bitmap before the first block of an
\* index is read, and each index is fully scanned before its bitmap is
\* compared with the heap bitmap.
C21_OrderedVisits ==
    /\ [k \in 1..Len(blockLog) |-> blockLog[k].blk] = Ascending(Len(blockLog))
    /\ Len(blockLog) = (IF pc = "check_table" THEN 0 ELSE blkno)
    /\ \A k \in 1..Len(blockLog) :
           /\ Len(blockLog[k].tuples) = PageGetMaxOffsetNumber(rel[k].hdr)
           /\ blockLog[k].examined = {i - 1 : i \in 1..Len(blockLog[k].tuples)}
    /\ \A n \in 1..Len(indexLog) :
           LET ix == indexes[indexLog[n].idx + 1]
           IN  /\ indexLog[n].heapBlocks = Len(rel)
               /\ ~indexLog[n].heap.null =>
                      /\ indexLog[n].heap.data = bitmap_heap.data
                      /\ \A k \in 1..Len(rel) :
                             PagesAt(indexLog[n].heap, k - 1) = LinpBefore(k)
                      /\ indexLog[n].ndiffs =
                             bitmap_compare(indexLog[n].heap, indexLog[n].after)
               /\ ix.relam = BTREE_AM_OID =>
                      indexLog[n].blocks = Ascending(Len(ix.pages))

C21_Witness ==
    /\ pc = "check_table_done"
    /\ call.crossCheckIndexes
    /\ Len(blockLog) = 2
    /\ Len(indexLog) = 1
    /\ indexLog[1].blocks = <<0, 1>>
    /\ indexLog[1].ndiffs > 0

(***************************************************************************)
(* Claims about lookup_check_method, checked under SpecLookup              *)
(***************************************************************************)
LookupReturned ==
    /\ pc = "lookup_done"
    /\ lookup.result = (IF lookup.oid = BTREE_AM_OID THEN "btree_check_page"
                        ELSE "generic_check_page")
    /\ lookup.oid # BTREE_AM_OID => lookup.crosscheck \in {"null", "false"}

\* C22: lookup_check_method terminates for every access-method OID and for
\* every value of its crosscheck argument, a null pointer included: it
\* returns the b-tree page checker for the b-tree OID and the generic
\* header-only checker, with crosscheck = false, for every other OID.
C22_LookupTerminates == <>LookupReturned

(***************************************************************************)
(* Claims about bitmap_set_item and bitmap_get_item, checked under         *)
(* SpecBitmap                                                              *)
(***************************************************************************)
\* the bitmap with the bit of (pgno, itm) put to state and nothing else
\* changed
WithBit(bm, pgno, itm, state) ==
    [bm EXCEPT !.data = IF state THEN @ \cup {GetBitmapIndex(bm, pgno, itm)}
                        ELSE @ \ {GetBitmapIndex(bm, pgno, itm)}]

BitIsSet(bm, pgno, itm) == GetBitmapIndex(bm, pgno, itm) \in bm.data

\* C23: bitmap_set_item returns false and leaves the bitmap unchanged when
\* page is not in [0, npages) or item is not a position of that page
\* (item < 0 or item >= the number of items recorded for the page), and also
\* when the addressed bit already has the value state; otherwise it returns
\* true and changes exactly the bit of (page, item) to state.
C23_SetItemContract ==
    [][bitop'.op = "set" =>
         IF \/ ~IsItemOfPage(bitmap_heap, bitop'.pgno, bitop'.itm)
            \/ BitIsSet(bitmap_heap, bitop'.pgno, bitop'.itm) = bitop'.state
         THEN ~bitop'.ok /\ bitmap_heap' = bitmap_heap
         ELSE /\ bitop'.ok
              /\ bitmap_heap' = WithBit(bitmap_heap, bitop'.pgno, bitop'.itm,
                                        bitop'.state)]_vars

\* C24: for an in-range (page, item) bitmap_get_item returns the current
\* value of exactly that item's bit: true iff the last bitmap_set_item on
\* (page, item) since the last reset set it to true, whatever the bits of
\* the other items; it never modifies the bitmap.
C24_GetItemReturnsTheBit ==
    [][bitop'.op = "get" =>
         /\ bitmap_heap' = bitmap_heap
         /\ IsItemOfPage(bitmap_heap, bitop'.pgno, bitop'.itm) =>
                /\ bitop'.ok = BitIsSet(bitmap_heap, bitop'.pgno, bitop'.itm)
                /\ bitop'.ok = (<<bitop'.pgno, bitop'.itm>> \in bitop.lastSet)]_vars

\* the range calls whose arguments passed the tests
RangeAccepted ==
    pc \in {"check_table", "check_index", "blocks", "index_blocks",
            "check_table_done", "check_index_done", "crashed"}
    \/ (pc = "error" /\ locks # <<>>)

RangeLoopOver == pc \in {"check_table_done", "check_index_done", "crashed"}

\* C25: pg_check_table_pages and pg_check_index_pages read and check the
\* blocks of the half-open range: the blocks read so far are blockFrom,
\* blockFrom + 1, ... in this order, all below blockTo, and when the loop
\* is over they are exactly the blocks b with blockFrom <= b < blockTo (none
\* when blockFrom >= blockTo); an argument below 0 or above MaxBlockNumber
\* ends the call with an error, no relation opened and no block read
C25_HalfOpenRange ==
    /\ (InvalidBlockArg(call.blkfrom) \/ InvalidBlockArg(call.blkto))
         => pc \in {call.fn, "error"} /\ locks = <<>> /\ blockLog = <<>>
    /\ RangeAccepted =>
         /\ \A i \in 1..Len(blockLog) :
              /\ blockLog[i].blk = call.blockFrom + i - 1
              /\ blockLog[i].blk < call.blockTo
         /\ RangeLoopOver =>
              {blockLog[i].blk : i \in 1..Len(blockLog)}
                  = {b \in 0..(MaxBlocks + 1) : call.blockFrom <= b /\ b < call.blockTo}

C25_Witness ==
    /\ pc = "check_table_done"
    /\ call.fn = "pg_check_table_pages"
    /\ Len(rel) = 2
    /\ call.blockFrom = 1 /\ call.blockTo = 2
    /\ Len(blockLog) = 1

\* the walk of result r was left at an attribute that overflows the tuple end
StoppedByOverflow(r) ==
    r.walk.walked /\ r.walk.stopped /\ \E k \in 1..Len(r.walk.errs) : r.walk.errs[k] = "overflow"

\* the errors counted for single attributes
AttributeErrors == {"rawsize", "negative", "overflow"}

\* C26: an attribute that overflows the tuple end stops the walk of its
\* tuple only: no attribute after it is reached or measured, the overflow
\* is the last error counted for an attribute of that tuple, and every later
\* line pointer of the page is checked in full: it gets the result of
\* check_heap_tuple on it (state, bounds, overlaps and, with storage, the
\* attribute walk)
C26_OverflowStopsOneTuple ==
    /\ \A k \in 1..Len(tres) :
         StoppedByOverflow(tres[k]) =>
           LET w == tres[k].walk
               p == CHOOSE q \in 1..Len(w.errs) : w.errs[q] = "overflow"
           IN  /\ w.seen = 0..w.j
               /\ \A q \in 1..Len(w.log) : w.log[q].j <= w.j
               /\ \A q \in 1..Len(w.errs) :
                    w.errs[q] \in AttributeErrors => q <= p
               /\ \A q \in (k + 1)..Len(tres) :
                    /\ \E g \in UninitLen : tres[q] = check_heap_tuple(page, desc, q - 1, g)
                    /\ tres[q].overlaps = OverlapsOf(page, q - 1)
                    /\ (LinpAt(page, q - 1).lp_flags \in {LP_NORMAL, LP_DEAD}
                         /\ LinpAt(page, q - 1).lp_len # 0) => tres[q].walk.walked
    /\ pc = "tuples_done" => Len(tres) = PageGetMaxOffsetNumber(page.hdr)

C26_Witness ==
    /\ pc = "tuples_done"
    /\ StoppedByOverflow(tres[1])
    /\ tres[1].walk.j = 0 /\ tres[1].walk.tuplenatts = 2
    /\ tres[2].walk.walked
    /\ tres[2].walk.seen = {0, 1}
    /\ tres[2].overlaps = {0}

\* the page counts of a bitmap
PageCounts(bm) == [npages |-> bm.npages, pages |-> bm.pages]

\* C27: in a cross-checking check_table every index scan starts from an
\* index bitmap with no bit set and the npages and page counts of the heap
\* bitmap; the heap bitmap is the same at every index scan (bitmap_copy,
\* bitmap_reset and the index scans leave it alone); the index bitmap keeps
\* its npages and page counts from one scan to the next; and the mismatch
\* count of an index is the one it gets when scanned first, on a fresh copy
\* of the heap bitmap
C27_IndexScansIndependent ==
    \A k \in 1..Len(indexLog) :
        LET e == indexLog[k]
        IN  ~e.heap.null =>
              /\ e.start.data = {}
              /\ PageCounts(e.start) = PageCounts(e.heap)
              /\ e.heap = indexLog[1].heap
              /\ pc = "indexes" => bitmap_heap = e.heap
              /\ pc = "check_table_done" => bitmap_heap = bitmap_free(e.heap)
              /\ PageCounts(e.after) = PageCounts(e.start)
              /\ \E g \in UninitLen :
                   e.ndiffs = bitmap_compare(e.heap,
                       check_index_oid(indexes[k], "index", bitmap_copy(e.heap), g).bm)

C27_Witness ==
    /\ pc = "check_table_done"
    /\ Len(indexLog) = 2
    /\ ~indexLog[1].heap.null
    /\ indexLog[1].after.data # {}
    /\ indexLog[2].start.data = {}
    /\ indexLog[1].ndiffs # indexLog[2].ndiffs

\* C28: in a cross-checking check_table an index that is not a b-tree adds
\* nothing to the error count: no page of it is checked, and neither
\* check_index_oid nor the comparison of the bitmaps counts anything for it
C28_NonBtreeContributesZero ==
    \A k \in 1..Len(indexLog) :
        (call.crossCheckIndexes /\ indexes[k].relam # BTREE_AM_OID) =>
            /\ indexLog[k].blocks = <<>>
            /\ indexLog[k].nerrs = 0
            /\ indexLog[k].ndiffs = 0

\* C29: check_table hands no null bitmap to bitmap_print or to
\* bitmap_compare: whatever was printed is a bitmap that was built, the
\* heap bitmap is printed only on a full scan with cross-check, the bitmaps
\* are compared only when the heap bitmap exists, and no run dies on a null
\* bitmap
C29_NoNullBitmapPassed ==
    /\ \A i \in 1..Len(printed) : ~printed[i].null
    /\ printed # <<>> => (call.crossCheckIndexes /\ ~call.blockRangeGiven)
    /\ \A k \in 1..Len(indexLog) :
         indexLog[k].pagesRead.a # {} => ~indexLog[k].heap.null /\ ~indexLog[k].after.null
    /\ pc # "crashed"

\* C30: a cross-checking check_table on a heap of zero blocks is safe: the
\* comparison of the two bitmaps of no page reads no element of either
\* pages array (in particular not the element -1) and returns 0 for
\* each index
C30_ZeroBlockHeapSafe ==
    \A k \in 1..Len(indexLog) :
        (~indexLog[k].heap.null /\ indexLog[k].heap.npages = 0) =>
            /\ indexLog[k].pagesRead.a = {}
            /\ indexLog[k].pagesRead.b = {}
            /\ indexLog[k].ndiffs = 0
====
